---- MODULE Spec2Model ----
(***************************************************************************)
(* A model of the Chifir virtual computer (src/src/computer.rs) together   *)
(* with the Sixel encoder it calls (src/src/sixel.rs) and the loop that    *)
(* drives it (main of src/src/bin/chifir.rs).                              *)
(*                                                                         *)
(* The machine word is u32 in the source.  TLC's integers are 32-bit       *)
(* signed, so the model keeps the word's behaviour (unsigned, wrapping at  *)
(* 2^WordBits, addresses as wide as values) at a reduced width WordBits,   *)
(* which is a bound of the model.  usize is taken to be wider than the     *)
(* word (a 64-bit target), so `index + 1` in read/write never overflows.   *)
(*                                                                         *)
(* `+`, `*` and `+=` on u32 panic on overflow when the crate is built with *)
(* overflow checks (the dev and test profiles) and wrap otherwise (the     *)
(* release profile).  The build is the variable overflow_checks, chosen    *)
(* once in Init.  A panic ends the process: panicked names the statement   *)
(* that failed and no operation is enabled afterwards.                     *)
(***************************************************************************)
EXTENDS Integers, Sequences, FiniteSets, TLC

\* ------------------------------------------------------------------ bounds

\* Width of the machine word in bits (32 in the source).
WordBits == 8

\* Longest run of bytes the environment leaves unread in the bound reader.
MaxInput == 2

\* Longest window of cells handed to sixel::from cell by cell (the windows of
\* the tests of sixel.rs are handed to it as well).
MaxWindow == 3

\* Largest destination buffer handed to read_frame, in units of ChunkUnit bytes.
MaxChunks == 1

\* Most calls of Compiler::write on one compiler.
MaxWrites == 2

\* Most calls of Compiler::compile on one compiler.
MaxCompiles == 1

\* ------------------------------------------------------------------ words

Modulus == 2 ^ WordBits

MaxWord == Modulus - 1

Word == 0 .. MaxWord

\* u8, the type of a key and of a frame byte.
Byte == 0 .. 255

\* Option<T> is a sequence of at most one element.
None == << >>

Some(x) == << x >>

Zeros(n) == [i \in 1 .. n |-> 0]

\* ------------------------------------------------------------------ state

VARIABLES
    memory,           \* Vec<u32>
    counter,          \* u32, the program counter
    input,            \* Option<&mut Read>: TRUE when a reader is bound
    input_bytes,      \* the bytes the bound reader has available and unread
    output,           \* Option<&mut Write>: TRUE when a writer is bound
    output_bytes,     \* the bytes of the last write to the bound writer
    keyboard,         \* Option<u8>
    display_address,  \* u32
    display_width,    \* u32
    display_height,   \* u32
    display,          \* Vec<u8>, the last frame
    read_position,    \* usize
    received,         \* history: the bytes read out of the last frame
    written,          \* history: the indices stored to by load or by write
    overflow_checks,  \* the build: TRUE when u32 overflow panics
    panicked,         \* "no", or the statement that panicked
    driver_at,        \* where main is: "write", "compile", "load", "test",
                      \* "step" or "exit"
    compiler,         \* the Compiler
    writes,           \* history: the number of calls of Compiler::write
    compiles,         \* history: the number of calls of Compiler::compile
    pressed           \* history: the keys that have arrived at the reader

vars == << memory, counter, input, input_bytes, output, output_bytes, keyboard,
           display_address, display_width, display_height, display,
           read_position, received, written, overflow_checks, panicked,
           driver_at, compiler, writes, compiles, pressed >>

\* The Computer as one value, as the methods see it through `self`.
Self ==
    [ memory |-> memory, counter |-> counter, input |-> input,
      input_bytes |-> input_bytes, output |-> output,
      output_bytes |-> output_bytes, keyboard |-> keyboard,
      display_address |-> display_address, display_width |-> display_width,
      display_height |-> display_height, display |-> display,
      read_position |-> read_position, received |-> received,
      written |-> written,
      panicked |-> panicked ]

\* The Computer after an operation: every field of `self` is stored back.
Becomes(m) ==
    \E self \in {m} :
        /\ memory' = self.memory
        /\ counter' = self.counter
        /\ input' = self.input
        /\ input_bytes' = self.input_bytes
        /\ output' = self.output
        /\ output_bytes' = self.output_bytes
        /\ keyboard' = self.keyboard
        /\ display_address' = self.display_address
        /\ display_width' = self.display_width
        /\ display_height' = self.display_height
        /\ display' = self.display
        /\ read_position' = self.read_position
        /\ received' = self.received
        /\ written' = self.written
        /\ panicked' = self.panicked
        /\ UNCHANGED << overflow_checks, compiler, writes, compiles >>

\* ----------------------------------------------------------------- memory

\* Vec::resize(new_len, 0) as read and write call it, only to grow.
resize(mem, new_len) ==
    IF new_len > Len(mem) THEN mem \o Zeros(new_len - Len(mem)) ELSE mem

\* Computer::read, its effect on self: memory grows to hold `index`.
grow(m, index) ==
    IF index >= Len(m.memory)
    THEN [m EXCEPT !.memory = resize(m.memory, index + 1)]
    ELSE m

\* Computer::read, its result.
read(m, index) == grow(m, index).memory[index + 1]

\* Computer::write.
write(m, index, value) ==
    LET g == grow(m, index)
    IN  [g EXCEPT !.memory[index + 1] = value,
                  !.written = g.written \cup {index}]

\* A panic at statement `site`: the process ends with `self` as the failing
\* statement found it.
panic(m, site) == [m EXCEPT !.panicked = site]

\* The statements of computer.rs that can panic.
PanicSites == {"fetch", "advance", "area", "slice"}

\* u32 `x + y` and `x * y` overflow when the exact result v is not a u32.
overflows(v) == v > MaxWord

\* `self.counter += 4` at the end of an opcode.
advance(m) ==
    IF overflows(m.counter + 4)
    THEN IF overflow_checks
         THEN panic(m, "advance")
         ELSE [m EXCEPT !.counter = (m.counter + 4) % Modulus]
    ELSE [m EXCEPT !.counter = m.counter + 4]

\* u32::wrapping_add, wrapping_sub, wrapping_mul.
wrapping_add(x, y) == (x + y) % Modulus

wrapping_sub(x, y) == (x - y) % Modulus

wrapping_mul(x, y) == (x * y) % Modulus

\* Bit k of the word x.
bit(x, k) == (x \div (2 ^ k)) % 2

\* `!(x & y)` on u32.
nand(x, y) ==
    LET s[k \in 0 .. WordBits] ==
            IF k = 0 THEN 0
            ELSE s[k - 1] + (1 - bit(x, k - 1) * bit(y, k - 1)) * 2 ^ (k - 1)
    IN  s[WordBits]

\* ------------------------------------------------------------------ sixel

\* sixel::begin and sixel::end, as bytes.
begin == << 27, 80, 113 >>

end == << 27, 92 >>

\* termion::cursor::Goto(1, 1) formatted: ESC [ 1 ; 1 H.
Goto11 == << 27, 91, 49, 59, 49, 72 >>

\* A faulty inner loop that sets the bits from the top, row + 0 as bit 5.
pixel_top_bit_first(mem, width, row, x) ==
    LET lit(y) ==
            LET offset == x + ((row + y) * width)
            IN  IF offset < Len(mem) THEN mem[offset + 1] > 0 ELSE FALSE
        shifted(y) == IF lit(y) THEN 2 ^ (5 - y) ELSE 0
    IN  shifted(0) + shifted(1) + shifted(2) + shifted(3) + shifted(4)
        + shifted(5) + 63

\* The inner loop of sixel::from: the byte for column x of the band at `row`.
pixel(mem, width, row, x) ==
    LET lit(y) ==
            LET offset == x + ((row + y) * width)
            IN  IF offset < Len(mem) THEN mem[offset + 1] > 0 ELSE FALSE
        shifted(y) == IF lit(y) THEN 2 ^ y ELSE 0
    IN  shifted(0) + shifted(1) + shifted(2) + shifted(3) + shifted(4)
        + shifted(5) + 63

\* The `while row < height` loop of sixel::from, from `row` on.
RECURSIVE bands(_, _, _, _, _)
bands(mem, width, height, border, row) ==
    IF row < height
    THEN (IF border THEN << 126 >> ELSE << >>)
         \o [x \in 1 .. width |-> pixel(mem, width, row, x - 1)]
         \o (IF border THEN << 126 >> ELSE << >>)
         \o << 36, 45 >>
         \o bands(mem, width, height, border, row + 6)
    ELSE << >>

\* A faulty sixel::from that closes the frame with the bytes of the top edge.
from_top_edge_twice(mem, width, height, border) ==
    (IF border THEN [i \in 1 .. width + 2 |-> 95] \o << 36, 45 >> ELSE << >>)
    \o bands(mem, width, height, border, 0)
    \o (IF border THEN [i \in 1 .. width + 2 |-> 95] \o << 36, 45 >> ELSE << >>)

\* sixel::from.
from(mem, width, height, border) ==
    (IF border THEN [i \in 1 .. width + 2 |-> 95] \o << 36, 45 >> ELSE << >>)
    \o bands(mem, width, height, border, 0)
    \o (IF border THEN [i \in 1 .. width + 2 |-> 64] \o << 36, 45 >> ELSE << >>)

\* ----------------------------------------------------------------- render

\* Computer::render once `end` is known: the two reads, the slice, the frame.
render_frame(m, start, stop) ==
    LET m1 == grow(grow(m, start), stop)
    IN  IF start > stop
        THEN panic(m1, "slice")    \* &self.memory[start..end], start > end
        ELSE LET window == SubSeq(m1.memory, start + 1, stop)
                 frame == Goto11 \o begin
                          \o from(window, m1.display_width,
                                  m1.display_height, TRUE)
                          \o end
             IN  [m1 EXCEPT !.display = frame,
                            !.read_position = 0,
                            !.received = << >>,
                            !.output_bytes =
                                IF m1.output THEN frame ELSE m1.output_bytes]

\* Computer::render.
render(m) ==
    LET width == m.display_width
        height == m.display_height
        start == m.display_address
        area == width * height
        stop == start + (area % Modulus)
    IN  IF overflow_checks /\ (overflows(area) \/ overflows(stop))
        THEN panic(m, "area")
        ELSE render_frame(m, start, stop % Modulus)

\* ------------------------------------------------------------------- exec

\* Read::read_to_end on the bound reader: every byte available is taken.  The
\* reader keeps the contract computer.rs relies on (in-memory Cursor, async
\* stdin): it returns Ok(n) once no more bytes are available.
read_to_end(m) == [ok |-> TRUE, bytes |-> m.input_bytes]

\* Opcode 15, the key the instruction stores: Some(byte) or None.
key_result(m) ==
    IF m.input
    THEN LET r == read_to_end(m)
             size == Len(r.bytes)
         IN  IF r.ok /\ size > 0 THEN Some(r.bytes[size]) ELSE m.keyboard
    ELSE m.keyboard

\* A faulty opcode 0 that moves on like nop: C4_HaltIsAbsorbing must notice.
op_brk_advances(m) == advance(m)

\* Opcode 0: halt execution.
op_brk(m) == m

\* Opcode 1: PC <- M[A].
op_lpc(m, a) == [grow(m, a) EXCEPT !.counter = read(m, a)]

\* A faulty opcode 2 that branches when M[B] is not 0: the Ctrl+C programs
\* would leave on every other key.
op_beq_on_nonzero(m, a, b) ==
    LET m1 == grow(m, b)
    IN  IF 0 # read(m, b)
        THEN [grow(m1, a) EXCEPT !.counter = read(m1, a)]
        ELSE advance(m1)

\* Opcode 2: if M[B] = 0 then PC <- M[A].
op_beq(m, a, b) ==
    LET m1 == grow(m, b)
    IN  IF 0 = read(m, b)
        THEN [grow(m1, a) EXCEPT !.counter = read(m1, a)]
        ELSE advance(m1)

\* Opcode 3: M[A] <- PC.
op_spc(m, a) == advance(write(m, a, m.counter))

\* Opcode 4: M[A] <- M[B].
op_lea(m, a, b) ==
    LET bv == read(m, b)
    IN  advance(write(grow(m, b), a, bv))

\* Opcode 5: M[A] <- M[M[B]].
op_lra(m, a, b) ==
    LET m1 == grow(m, b)
        b1 == read(m, b)
        m2 == grow(m1, b1)
        b2 == read(m1, b1)
    IN  advance(write(m2, a, b2))

\* Opcode 6: M[M[B]] <- M[A].
op_sra(m, a, b) ==
    LET m1 == grow(m, a)
        av == read(m, a)
        m2 == grow(m1, b)
        bv == read(m1, b)
    IN  advance(write(m2, bv, av))

\* The shape opcodes 7 to 13 share: read M[B], read M[C], write the value
\* computed from them to M[A], PC += 4.
store(m, a, b, c, value) == advance(write(grow(grow(m, b), c), a, value))

\* `let b = self.read(b); let c = self.read(c);`
value_b(m, b) == read(m, b)

value_c(m, b, c) == read(grow(m, b), c)

\* Opcodes 10 to 13, the word stored from bv = M[B] and cv = M[C].
div(bv, cv) == IF cv > 0 THEN bv \div cv ELSE 0

mod(bv, cv) == IF cv > 0 THEN bv % cv ELSE 0

cmp(bv, cv) == IF bv < cv THEN 1 ELSE 0

\* A faulty add that accumulates in the destination: M[A] <- M[B], then
\* M[A] <- M[A] + M[C], so that M[C] is read after the first write.
op_add_in_place(m, a, b, c) ==
    LET m1 == write(grow(grow(m, b), c), a, read(m, b))
    IN  advance(write(m1, a, wrapping_add(read(m1, a), read(m1, c))))

\* Opcodes 7 to 13.
op_add(m, a, b, c) ==
    store(m, a, b, c, wrapping_add(value_b(m, b), value_c(m, b, c)))

op_sub(m, a, b, c) ==
    store(m, a, b, c, wrapping_sub(value_b(m, b), value_c(m, b, c)))

op_mul(m, a, b, c) ==
    store(m, a, b, c, wrapping_mul(value_b(m, b), value_c(m, b, c)))

op_div(m, a, b, c) == store(m, a, b, c, div(value_b(m, b), value_c(m, b, c)))

op_mod(m, a, b, c) == store(m, a, b, c, mod(value_b(m, b), value_c(m, b, c)))

op_cmp(m, a, b, c) == store(m, a, b, c, cmp(value_b(m, b), value_c(m, b, c)))

op_nad(m, a, b, c) == store(m, a, b, c, nand(value_b(m, b), value_c(m, b, c)))

\* Opcode 14: refresh the screen.
op_drw(m) ==
    LET m1 == render(m)
    IN  IF m1.panicked # "no" THEN m1 ELSE advance(m1)

\* A faulty key that keeps the byte it drained from the reader in the
\* register: C13_ReaderByteNotKept must notice.
op_key_keeps_last(m, a) ==
    LET result == key_result(m)
        m1 == IF m.input
              THEN [m EXCEPT !.input_bytes = << >>, !.keyboard = result]
              ELSE m
    IN  IF result # None THEN advance(write(m1, a, result[1])) ELSE m1

\* A faulty key that empties the register once it has delivered a byte:
\* C14_KeyKeepsRegister must notice.
op_key_consumes(m, a) ==
    LET result == key_result(m)
        m1 == IF m.input THEN [m EXCEPT !.input_bytes = << >>] ELSE m
    IN  IF result # None
        THEN advance(write([m1 EXCEPT !.keyboard = None], a, result[1]))
        ELSE m1

\* Opcode 15: get one character from the keyboard and store it into M[A].
op_key(m, a) ==
    LET result == key_result(m)
        m1 == IF m.input THEN [m EXCEPT !.input_bytes = << >>] ELSE m
    IN  IF result # None
        THEN advance(write(m1, a, result[1]))
        ELSE m1

\* A faulty nop that empties the last-key register on its way.
op_nop_clears_key(m) == advance([m EXCEPT !.keyboard = None])

\* Opcode 16: skip this instruction.
op_nop(m) == advance(m)

\* Opcode 17: configure the display at A with width B and height C.
op_cfv(m, a, b, c) ==
    advance([m EXCEPT !.display_address = a,
                      !.display_width = b,
                      !.display_height = c])

\* A faulty unknown opcode that is skipped like nop: C3_HaltLeavesState must
\* notice.
op_unknown_advances(m) == advance(m)

\* `_ => {}`: an unknown opcode.
op_unknown(m) == m

\* Computer::exec.
exec(m, opcode, a, b, c) ==
    CASE opcode = 0 -> op_brk(m)
      [] opcode = 1 -> op_lpc(m, a)
      [] opcode = 2 -> op_beq(m, a, b)
      [] opcode = 3 -> op_spc(m, a)
      [] opcode = 4 -> op_lea(m, a, b)
      [] opcode = 5 -> op_lra(m, a, b)
      [] opcode = 6 -> op_sra(m, a, b)
      [] opcode = 7 -> op_add(m, a, b, c)
      [] opcode = 8 -> op_sub(m, a, b, c)
      [] opcode = 9 -> op_mul(m, a, b, c)
      [] opcode = 10 -> op_div(m, a, b, c)
      [] opcode = 11 -> op_mod(m, a, b, c)
      [] opcode = 12 -> op_cmp(m, a, b, c)
      [] opcode = 13 -> op_nad(m, a, b, c)
      [] opcode = 14 -> op_drw(m)
      [] opcode = 15 -> op_key(m, a)
      [] opcode = 16 -> op_nop(m)
      [] opcode = 17 -> op_cfv(m, a, b, c)
      [] OTHER -> op_unknown(m)

\* `self.read(counter + k)` in step: the index, or a panic when it overflows.
operand_overflows(m, k) == overflow_checks /\ overflows(m.counter + k)

operand_index(m, k) == (m.counter + k) % Modulus

\* Computer::step.
step(m) ==
    LET m0 == grow(m, m.counter)
        opcode == read(m, m.counter)
    IN  IF operand_overflows(m, 1) THEN panic(m0, "fetch") ELSE
        LET m1 == grow(m0, operand_index(m, 1))
            a == read(m0, operand_index(m, 1))
        IN  IF operand_overflows(m, 2) THEN panic(m1, "fetch") ELSE
            LET m2 == grow(m1, operand_index(m, 2))
                b == read(m1, operand_index(m, 2))
            IN  IF operand_overflows(m, 3) THEN panic(m2, "fetch") ELSE
                LET m3 == grow(m2, operand_index(m, 3))
                    c == read(m2, operand_index(m, 3))
                IN  exec(m3, opcode, a, b, c)

\* A faulty next that reports an unknown opcode as the halt word, which would
\* stop the driver loop there: C5_UnknownOpcodeSpins must notice.
next_halts_on_unknown(m) ==
    IF read(m, m.counter) > 17 THEN 0 ELSE read(m, m.counter)

\* A faulty next that fetches the whole instruction, as step does, and so
\* grows the memory up to the last operand: C20_NextOnlyGrows must notice.
next_fetches_operands(m) == grow(m, m.counter + 3)

\* Computer::next, its effect on the computer: self.read(counter) makes the
\* memory at least counter + 1 cells long.
next_effect(m) == grow(m, m.counter)

\* Computer::next.
next(m) == read(m, m.counter)

\* A faulty load that extends the memory without clearing it first:
\* C19_LoadReplacesMemory must notice.
load_without_clear(m, words) ==
    [m EXCEPT !.memory = m.memory \o words,
              !.counter = 0,
              !.written = m.written \cup
                          {Len(m.memory) + i - 1 : i \in 1 .. Len(words)}]

\* A faulty load that starts the new program with an empty last-key
\* register.
load_clears_key(m, words) ==
    [m EXCEPT !.memory = words,
              !.counter = 0,
              !.written = {i - 1 : i \in 1 .. Len(words)},
              !.keyboard = None]

\* Computer::load and Computer::load_from_slice.
load(m, words) ==
    [m EXCEPT !.memory = words,
              !.counter = 0,
              !.written = {i - 1 : i \in 1 .. Len(words)}]

\* A faulty write_key that takes the first byte of the buffer:
\* C15_WriteKeySetsRegister must notice.
write_key_first(m, buf) ==
    IF buf # << >>
    THEN [m EXCEPT !.keyboard = Some(buf[1])]
    ELSE [m EXCEPT !.keyboard = None]

\* impl Write for Computer, write (write_key).
write_key(m, buf) ==
    IF buf # << >>
    THEN [m EXCEPT !.keyboard = Some(buf[Len(buf)])]
    ELSE [m EXCEPT !.keyboard = None]

\* impl Read for Computer, read (read_frame) into a buffer of buf_len bytes.
read_frame_amt(m, buf_len) ==
    LET rest == Len(m.display) - m.read_position
    IN  IF rest < buf_len THEN rest ELSE buf_len

\* The bytes copied to the front of the buffer.
read_frame_chunk(m, buf_len) ==
    SubSeq(m.display, m.read_position + 1,
           m.read_position + read_frame_amt(m, buf_len))

\* A faulty read that hands out a chunk without moving the read position:
\* C17_FrameReadInOrder must notice.
read_frame_stays(m, buf_len) ==
    [m EXCEPT !.received = m.received \o read_frame_chunk(m, buf_len)]

\* The copy moves the read position past the bytes handed out.
read_frame(m, buf_len) ==
    [m EXCEPT !.read_position = m.read_position + read_frame_amt(m, buf_len),
              !.received = m.received \o read_frame_chunk(m, buf_len)]

\* --------------------------------------------------------------- compiler

\* Text is a sequence of chars, a char its Unicode code point.  The line
\* terminators of split_lines:
LF == 10

VT == 11

FF == 12

CR == 13

NEL == 133

LS == 8232

PS == 8233

\* char::is_whitespace, the White_Space property that str::trim and
\* str::split_whitespace go by: tab, the terminators above, space, no-break
\* space and the Unicode spaces.
White_Space ==
    {9, LF, VT, FF, CR, 32, NEL, 160, 5760, LS, PS, 8239, 8287, 12288}
        \cup (8192 .. 8202)

\* ';', ':', '/' and '+'.
Semicolon == 59

Colon == 58

Slash == 47

Plus == 43

\* UTF-8 continuation byte.
continuation(b) == b \in 128 .. 191

\* String::from_utf8, one char: the number of bytes of the sequence that
\* starts at byte i, or 0 when no char starts there.  Sequences are one to
\* four bytes long; overlong forms, surrogates, code points above 10FFFF and
\* a sequence cut short are errors.
utf8_width(bytes, i) ==
    LET n == Len(bytes) - i + 1
        b1 == bytes[i]
        b2 == bytes[i + 1]
        b3 == bytes[i + 2]
        b4 == bytes[i + 3]
    IN  CASE b1 < 128 -> 1
          [] b1 \in 194 .. 223 ->
                IF n >= 2 /\ continuation(b2) THEN 2 ELSE 0
          [] b1 \in 224 .. 239 ->
                IF /\ n >= 3
                   /\ continuation(b2)
                   /\ continuation(b3)
                   /\ b1 = 224 => b2 >= 160
                   /\ b1 = 237 => b2 <= 159
                THEN 3 ELSE 0
          [] b1 \in 240 .. 244 ->
                IF /\ n >= 4
                   /\ continuation(b2)
                   /\ continuation(b3)
                   /\ continuation(b4)
                   /\ b1 = 240 => b2 >= 144
                   /\ b1 = 244 => b2 <= 143
                THEN 4 ELSE 0
          [] OTHER -> 0

\* The code point of the sequence of `width` bytes that starts at byte i.
utf8_char(bytes, i, width) ==
    CASE width = 1 -> bytes[i]
      [] width = 2 -> (bytes[i] - 192) * 64 + (bytes[i + 1] - 128)
      [] width = 3 -> (bytes[i] - 224) * 4096 + (bytes[i + 1] - 128) * 64
                      + (bytes[i + 2] - 128)
      [] width = 4 -> (bytes[i] - 240) * 262144 + (bytes[i + 1] - 128) * 4096
                      + (bytes[i + 2] - 128) * 64 + (bytes[i + 3] - 128)

\* The bytes at which a char starts: UTF-8 is self-synchronising, a char
\* starts at every byte that is not a continuation byte.
utf8_starts(bytes) == {i \in 1 .. Len(bytes) : ~continuation(bytes[i])}

\* String::from_utf8: Ok(chars) when the bytes are well-formed sequences one
\* behind the other, Err otherwise.
from_utf8(bytes) ==
    LET starts == utf8_starts(bytes)
        ok == /\ bytes # << >> => 1 \in starts
              /\ \A i \in starts :
                    /\ utf8_width(bytes, i) > 0
                    /\ i + utf8_width(bytes, i) \in starts \cup {Len(bytes) + 1}
        leads(i) == ~continuation(bytes[i])
        start == SelectSeq([i \in 1 .. Len(bytes) |-> i], leads)
    IN  IF ok
        THEN [ok |-> TRUE,
              chars |-> [k \in 1 .. Len(start) |->
                            utf8_char(bytes, start[k],
                                      utf8_width(bytes, start[k]))]]
        ELSE [ok |-> FALSE, chars |-> << >>]

\* str::find(char): the index of the first occurrence, counted from 0, or
\* None.
find(s, ch) ==
    IF \E i \in 1 .. Len(s) : s[i] = ch
    THEN Some((CHOOSE i \in 1 .. Len(s) :
                  s[i] = ch /\ \A j \in 1 .. i - 1 : s[j] # ch) - 1)
    ELSE None

\* str::split_at(index).0
split_at_0(s, index) == SubSeq(s, 1, index)

\* str::trim: without its leading and trailing whitespace.
trim(s) ==
    LET inked(i) == s[i] \notin White_Space
    IN  IF \A i \in 1 .. Len(s) : ~inked(i) THEN << >>
        ELSE SubSeq(s,
                    CHOOSE i \in 1 .. Len(s) :
                        inked(i) /\ \A j \in 1 .. i - 1 : ~inked(j),
                    CHOOSE i \in 1 .. Len(s) :
                        inked(i) /\ \A j \in i + 1 .. Len(s) : ~inked(j))

\* str::trim_left_matches(ch): without every leading ch.
trim_left_matches(s, ch) ==
    LET others == {i \in 1 .. Len(s) : s[i] # ch}
    IN  IF others = {} THEN << >>
        ELSE SubSeq(s, CHOOSE i \in others : \A j \in others : i <= j, Len(s))

\* str::starts_with(char)
starts_with(s, ch) == s # << >> /\ s[1] = ch

\* str::split_whitespace from char i on: the non-empty runs of chars that are
\* not whitespace.
RECURSIVE split_whitespace_from(_, _, _, _)
split_whitespace_from(s, i, tokens, token) ==
    LET closed == IF token # << >> THEN Append(tokens, token) ELSE tokens
    IN  IF i > Len(s) THEN closed
        ELSE IF s[i] \in White_Space
        THEN split_whitespace_from(s, i + 1, closed, << >>)
        ELSE split_whitespace_from(s, i + 1, tokens, Append(token, s[i]))

split_whitespace(s) == split_whitespace_from(s, 1, << >>, << >>)

\* Iterator::next on the tokens of a line: the k-th token, or None.
nth(tokens, k) == IF k <= Len(tokens) THEN Some(tokens[k]) ELSE None

\* char::to_digit(16)
to_digit(ch) ==
    IF ch \in 48 .. 57 THEN Some(ch - 48)
    ELSE IF ch \in 97 .. 102 THEN Some(ch - 87)
    ELSE IF ch \in 65 .. 70 THEN Some(ch - 55)
    ELSE None

\* The digit loop of u32::from_str_radix(_, 16): checked_mul and checked_add
\* on the word, Err on a char that is no digit and on overflow.
RECURSIVE digits_from(_, _, _)
digits_from(digits, i, result) ==
    IF i > Len(digits) THEN Some(result)
    ELSE LET x == to_digit(digits[i])
         IN  IF x = None THEN None
             ELSE IF result * 16 + x[1] > MaxWord THEN None
             ELSE digits_from(digits, i + 1, result * 16 + x[1])

\* u32::from_str_radix(src, 16): Some(value) for Ok, None for Err.  One
\* leading '+' is accepted; the empty string and a lone '+' are errors.
from_str_radix(src) ==
    LET digits == IF starts_with(src, Plus) THEN Tail(src) ELSE src
    IN  IF src = << >> \/ digits = << >> THEN None
        ELSE digits_from(digits, 1, 0)

\* Result::unwrap_or(0)
unwrap_or_0(r) == IF r = None THEN 0 ELSE r[1]

\* The mnemonics of parse_opcode, in the order of their codes from 0:
\* brk lpc beq spc lea lra sra add sub mul div mod cmp nad drw key nop cfv.
Mnemonics ==
    << << 98, 114, 107 >>, << 108, 112, 99 >>, << 98, 101, 113 >>,
       << 115, 112, 99 >>, << 108, 101, 97 >>, << 108, 114, 97 >>,
       << 115, 114, 97 >>, << 97, 100, 100 >>, << 115, 117, 98 >>,
       << 109, 117, 108 >>, << 100, 105, 118 >>, << 109, 111, 100 >>,
       << 99, 109, 112 >>, << 110, 97, 100 >>, << 100, 114, 119 >>,
       << 107, 101, 121 >>, << 110, 111, 112 >>, << 99, 102, 118 >> >>

\* Compiler::parse_opcode
parse_opcode(opcode) ==
    IF opcode = None THEN 0
    ELSE IF \E k \in 1 .. Len(Mnemonics) : Mnemonics[k] = opcode[1]
    THEN (CHOOSE k \in 1 .. Len(Mnemonics) : Mnemonics[k] = opcode[1]) - 1
    ELSE unwrap_or_0(from_str_radix(opcode[1]))

\* Compiler::parse_operand, the operand that is a relative address: the hex
\* value behind the slashes.
relative(operand) ==
    unwrap_or_0(from_str_radix(trim_left_matches(operand, Slash)))

\* Compiler::parse_operand: `address + opcode_address` is beyond the word.
relative_overflows(labels, operand, opcode_address) ==
    /\ operand # None
    /\ operand[1] \notin DOMAIN labels
    /\ starts_with(operand[1], Slash)
    /\ relative(operand[1]) + opcode_address > MaxWord

\* Compiler::parse_operand, when it returns.
parse_operand(labels, operand, opcode_address) ==
    IF operand = None THEN 0
    ELSE IF operand[1] \in DOMAIN labels THEN labels[operand[1]]
    ELSE IF starts_with(operand[1], Slash)
    THEN (relative(operand[1]) + opcode_address) % Modulus
    ELSE unwrap_or_0(from_str_radix(operand[1]))

\* The Compiler as one value; result is what the last compile came to: "none"
\* before the first, "ok" for Ok(bytecodes), "utf8" for Err(FromUtf8Error),
\* "panic" when it panicked.
CompilerNew ==
    [ assembly |-> << >>, lines |-> << >>, instructions |-> << >>,
      labels |-> << >>, bytecodes |-> << >>, result |-> "none" ]

\* impl Write for Compiler, write.
compiler_write(c, buf) == [c EXCEPT !.assembly = c.assembly \o buf]

\* The chars split_lines ends a line at.
Terminators == {LF, VT, FF, CR, NEL, LS, PS}

\* Compiler::split_lines from char i on, `line` being the line begun.  Chars
\* are pushed to the line up to the next terminator, at stop.  Behind a CR,
\* chars.next() takes one more char: an LF is dropped, any other char starts
\* the next line, whatever it is.
RECURSIVE split_lines_from(_, _, _, _)
split_lines_from(chars, i, lines, line) ==
    LET ends(j) == chars[j] \in Terminators
        stop == CHOOSE j \in i .. Len(chars) :
                    ends(j) /\ \A k \in i .. j - 1 : ~ends(k)
        pushed == line \o SubSeq(chars, i, stop - 1)
        rest == line \o SubSeq(chars, i, Len(chars))
    IN  IF \A j \in i .. Len(chars) : ~ends(j)
        THEN IF rest # << >> THEN Append(lines, rest) ELSE lines
        ELSE IF chars[stop] # CR
        THEN split_lines_from(chars, stop + 1, Append(lines, pushed), << >>)
        ELSE IF stop + 1 <= Len(chars) /\ chars[stop + 1] # LF
        THEN split_lines_from(chars, stop + 2, Append(lines, pushed),
                              << chars[stop + 1] >>)
        ELSE split_lines_from(chars, stop + 2, Append(lines, pushed), << >>)

\* Compiler::split_lines: the lines are pushed behind those already there.
split_lines(c, assembly) ==
    [c EXCEPT !.lines = split_lines_from(assembly, 1, c.lines, << >>)]

\* A faulty strip_comments, one line: what is in front of the comment is not
\* trimmed again.
strip_comment_once_trimmed(line) ==
    LET trimmed_line == trim(line)
        index == find(trimmed_line, Semicolon)
    IN  IF trimmed_line # << >> /\ ~starts_with(trimmed_line, Semicolon)
        THEN Some(IF index # None
                  THEN split_at_0(trimmed_line, index[1])
                  ELSE trimmed_line)
        ELSE None

\* Compiler::strip_comments, one line: the instruction pushed, if any.
strip_comment(line) ==
    LET trimmed_line == trim(line)
        index == find(trimmed_line, Semicolon)
    IN  IF trimmed_line # << >> /\ ~starts_with(trimmed_line, Semicolon)
        THEN Some(trim(IF index # None
                       THEN split_at_0(trimmed_line, index[1])
                       ELSE trimmed_line))
        ELSE None

\* Compiler::strip_comments from line i on.
RECURSIVE strip_comments_from(_, _, _)
strip_comments_from(lines, i, instructions) ==
    IF i > Len(lines) THEN instructions
    ELSE strip_comments_from(lines, i + 1,
                             instructions \o strip_comment(lines[i]))

\* Compiler::strip_comments: every line of self.lines is gone through.
strip_comments(c) ==
    [c EXCEPT !.instructions = strip_comments_from(c.lines, 1, c.instructions)]

\* A faulty insert: a name that is bound keeps its binding.
insert_first_wins(labels, name, address) ==
    [n \in DOMAIN labels \cup {name} |->
        IF n \in DOMAIN labels THEN labels[n] ELSE address]

\* HashMap::insert
insert(labels, name, address) ==
    [n \in DOMAIN labels \cup {name} |->
        IF n = name THEN address ELSE labels[n]]

\* Compiler::compile_labels from instruction i on.
RECURSIVE compile_labels_from(_, _, _, _)
compile_labels_from(instructions, i, labels, address) ==
    IF i > Len(instructions) THEN labels
    ELSE LET index == find(instructions[i], Colon)
         IN  IF index # None
             THEN compile_labels_from(
                      instructions, i + 1,
                      insert(labels, split_at_0(instructions[i], index[1]),
                             address),
                      address)
             ELSE compile_labels_from(instructions, i + 1, labels,
                                      address + 4)

\* A faulty compile_labels: the address count starts behind one instruction.
compile_labels_from_4(c) ==
    [c EXCEPT !.labels = compile_labels_from(c.instructions, 1, c.labels, 4)]

\* Compiler::compile_labels
compile_labels(c) ==
    [c EXCEPT !.labels = compile_labels_from(c.instructions, 1, c.labels, 0)]

\* Compiler::compile_bytecodes, one instruction that is not a label: the
\* opcode and the operands are pushed one by one, up to the operand whose
\* relative address overflows.
emit(c, instruction) ==
    LET opcode_address == Len(c.bytecodes) % Modulus
        bytecodes == split_whitespace(instruction)
        stops(k) == /\ overflow_checks
                    /\ relative_overflows(c.labels, nth(bytecodes, k),
                                          opcode_address)
        operand(k) == parse_operand(c.labels, nth(bytecodes, k),
                                    opcode_address)
        pushed == << parse_opcode(nth(bytecodes, 1)) >>
                  \o (IF stops(2) THEN << >>
                      ELSE << operand(2) >>
                           \o (IF stops(3) THEN << >>
                               ELSE << operand(3) >>
                                    \o (IF stops(4) THEN << >>
                                        ELSE << operand(4) >>)))
    IN  [c EXCEPT !.bytecodes = c.bytecodes \o pushed,
                  !.result = IF Len(pushed) < 4 THEN "panic" ELSE c.result]

\* Compiler::compile_bytecodes from instruction i on.
RECURSIVE compile_bytecodes_from(_, _)
compile_bytecodes_from(c, i) ==
    IF i > Len(c.instructions) \/ c.result = "panic" THEN c
    ELSE IF find(c.instructions[i], Colon) # None
    THEN compile_bytecodes_from(c, i + 1)
    ELSE compile_bytecodes_from(emit(c, c.instructions[i]), i + 1)

\* Compiler::compile_bytecodes
compile_bytecodes(c) == compile_bytecodes_from(c, 1)

\* Compiler::compile
compile(c) ==
    LET assembly == from_utf8(c.assembly)
        run == [c EXCEPT !.result = "ok"]
    IN  IF ~assembly.ok THEN [c EXCEPT !.result = "utf8"]
        ELSE compile_bytecodes(
                 compile_labels(
                     strip_comments(split_lines(run, assembly.chars))))

\* ----------------------------------------------------------------- inputs

\* The opcode words tried: the eighteen opcodes and two words that are none.
Opcodes == 0 .. 17 \cup {18, MaxWord}

\* Operands A, B, C of the instruction at 0: distinct data cells, A = B,
\* A inside the instruction itself, A the last cell of the address space.
OperandTriples ==
    { << 4, 5, 6 >>, << 4, 4, 5 >>, << 1, 5, 6 >>, << MaxWord, 5, 4 >> }

\* The data cells M[4], M[5], M[6] behind the instruction.
DataTriples ==
    { << 0, 11, 2 >>, << 1, 2, 11 >>, << 1, MaxWord, 2 >>, << 2, 11, 0 >>,
      << MaxWord - 3, 0, MaxWord >> }

\* One instruction followed by three data cells.
InstructionPrograms ==
    { << op >> \o abc \o d : op \in Opcodes, abc \in OperandTriples,
                             d \in DataTriples }

\* A program that stores `op` at address `at` (sra) and jumps there (lpc): the
\* third step executes `op` with the instruction at the top of the address
\* space.
EdgeProgram(op, at) == << 6, 8, 9, 0, 1, 9, 0, 0, op, at >>

EdgePrograms ==
    { EdgeProgram(op, at) : op \in Opcodes, at \in {MaxWord - 3, MaxWord} }

\* Programs of the tests and doc examples of computer.rs, and two that move
\* the display: to a window inside memory, and to one that ends past the last
\* address.
ExamplePrograms ==
    { << >>, << 0 >>, << 1, 2, 4, 0 >>, << 1, 4, 0, 0, 2 >>,
      << 14, 0, 0, 0 >>, << 15, 1, 0, 0 >>, << 16, 0, 0, 0 >>,
      << 17, 4, 2, 7, 14, 0, 0, 0 >>,
      << 17, MaxWord, 1, 1, 14, 0, 0, 0 >> }

\* The programs of ExecSpec.
Programs == InstructionPrograms \cup EdgePrograms \cup ExamplePrograms

\* Computer::new, scaled to the word: the display window lies inside the
\* address space as 1_048_576 + 512 * 684 does inside 2^32.
DefaultDisplayAddress == Modulus \div 4

DefaultDisplayWidth == 2

DefaultDisplayHeight == 6

\* The programs ExecSpec offers to load: any of Programs to a computer that
\* has not run yet (no memory, no frame, the display where Computer::new put
\* it), one of the examples to a computer that has.
LoadChoices(m) ==
    IF /\ m.memory = << >>
       /\ m.display = << >>
       /\ m.display_address = DefaultDisplayAddress
       /\ m.display_width = DefaultDisplayWidth
       /\ m.display_height = DefaultDisplayHeight
    THEN Programs
    ELSE ExamplePrograms

\* The programs of Spec: the examples, a key instruction that stores into a
\* data cell, and instructions at the top of the address space.
ApiPrograms ==
    ExamplePrograms
    \cup { << 15, 4, 0, 0, 0 >>, << 18, 0, 0, 0 >>,
           EdgeProgram(0, MaxWord), EdgeProgram(16, MaxWord - 3) }

\* The programs of KeySpec: the key instruction of the tests and of the doc
\* examples, two key instructions in a row, the loop that waits for Ctrl+C,
\* and a key instruction at the top of the address space.
KeyPrograms ==
    { << 15, 1, 0, 0 >>, << 15, 2, 0, 0 >>, << 15, 4, 0, 0, 0 >>,
      << 15, 6, 0, 0, 15, 7 >>,
      << 15, 2, 0, 3, 8, 2, 2, 3, 2, 11, 2, 15, 1, 14, 0, 0 >>,
      EdgeProgram(15, MaxWord - 3), EdgeProgram(15, MaxWord) }

\* The programs of DisplaySpec: the drw of the tests, a drw after a cfv, two
\* drws with a pixel lit in between, a window that ends past the last address,
\* and a drw at the top of the address space.
DisplayPrograms ==
    { << 14, 0, 0, 0 >>, << 17, 4, 2, 7, 14, 0, 0, 0 >>,
      << 17, 20, 2, 6, 14, 0, 0, 0, 7, 20, 21, 21, 14, 0, 0, 0, 0, 0, 0, 0,
         0, 1 >>,
      << 17, MaxWord, 1, 1, 14, 0, 0, 0 >>,
      EdgeProgram(14, MaxWord - 3) }

\* The keys pressed: Ctrl+C and a letter.
Keys == {3, 97}

\* What a reader holds when it is bound: nothing, or the bytes of the test
\* it_runs_opcode_15_non_blocking.
ReaderContents == { << >>, << 8, 10, 13, 32 >> }

\* Buffers handed to write_key.
KeyBuffers == { << >>, << 3 >>, << 97 >>, << 3, 97 >> }

\* Destination buffer sizes handed to read_frame.
ChunkUnit == 16

BufferSizes == { k * ChunkUnit : k \in 0 .. MaxChunks }

\* Source text handed to write piece by piece, as UTF-8 bytes; the pieces are
\* whole lines, \n standing for LF:
\*   ff: x\n
\*   /5:\n
\*   nop\n
\*   add /0 /5 /6\n
\*   ff a /ff ff\n
\*   KEY +f zz 0 9\n
\*   key /5 //5 100\n
\*   a:\n; c\nnop\n
\*   lpc a\na: x\n
\*   nop\nff: x\nff a /ff ff\nff:\n
\*   brk\nlpc\nbeq\nspc\nlea\nlra\nsra\nadd\nsub\n
\*   mul\ndiv\nmod\ncmp\nnad\ndrw\nkey\nnop\ncfv\n
LineChunks ==
    { << 102, 102, 58, 32, 120, 10 >>,
      << 47, 53, 58, 10 >>,
      << 110, 111, 112, 10 >>,
      << 97, 100, 100, 32, 47, 48, 32, 47, 53, 32, 47, 54, 10 >>,
      << 102, 102, 32, 97, 32, 47, 102, 102, 32, 102, 102, 10 >>,
      << 75, 69, 89, 32, 43, 102, 32, 122, 122, 32, 48, 32, 57, 10 >>,
      << 107, 101, 121, 32, 47, 53, 32, 47, 47, 53, 32, 49, 48, 48, 10 >>,
      << 97, 58, 10, 59, 32, 99, 10, 110, 111, 112, 10 >>,
      << 108, 112, 99, 32, 97, 10, 97, 58, 32, 120, 10 >>,
      << 110, 111, 112, 10, 102, 102, 58, 32, 120, 10, 102, 102, 32, 97, 32,
         47, 102, 102, 32, 102, 102, 10, 102, 102, 58, 10 >>,
      << 98, 114, 107, 10, 108, 112, 99, 10, 98, 101, 113, 10, 115, 112,
         99, 10, 108, 101, 97, 10, 108, 114, 97, 10, 115, 114, 97, 10, 97,
         100, 100, 10, 115, 117, 98, 10 >>,
      << 109, 117, 108, 10, 100, 105, 118, 10, 109, 111, 100, 10, 99, 109,
         112, 10, 110, 97, 100, 10, 100, 114, 119, 10, 107, 101, 121, 10,
         110, 111, 112, 10, 99, 102, 118, 10 >> }

\* Source text handed to write piece by piece, as UTF-8 bytes: label lines
\* with and without a name, colons inside comments, and instructions, \n
\* standing for LF:
\*   :\n
\*   :x\n
\*   a:\n
\*   nop\n
\*   ; c:\n
\*   lpc a ;b:\n
\*    : ;\n
\*   b c: d\n
\*   ;\n
LabelChunks ==
    { << 58, 10 >>,
      << 58, 120, 10 >>,
      << 97, 58, 10 >>,
      << 110, 111, 112, 10 >>,
      << 59, 32, 99, 58, 10 >>,
      << 108, 112, 99, 32, 97, 32, 59, 98, 58, 10 >>,
      << 32, 58, 32, 59, 10 >>,
      << 98, 32, 99, 58, 32, 100, 10 >>,
      << 59, 10 >> }

\* Source text handed to write piece by piece, as UTF-8 bytes: "0", ";", " ",
\* tab, CR, LF, VT FF, LS PS, the bytes C2, 85 and A0, which are the halves of
\* NEL (C2 85) and of the no-break space (C2 A0) and not UTF-8 on their own,
\* and " 0 ;0" with a CR behind it.
CharChunks ==
    { << 48 >>,
      << 59 >>,
      << 32 >>,
      << 9 >>,
      << 13 >>,
      << 10 >>,
      << 11, 12 >>,
      << 226, 128, 168, 226, 128, 169 >>,
      << 194 >>,
      << 133 >>,
      << 160 >>,
      << 32, 48, 32, 59, 48, 13 >> }

\* ------------------------------------------------------------------- Init

Init ==
    /\ memory = << >>
    /\ counter = 0
    /\ input = FALSE
    /\ input_bytes = << >>
    /\ output = FALSE
    /\ output_bytes = << >>
    /\ keyboard = None
    /\ display_address = DefaultDisplayAddress
    /\ display_width = DefaultDisplayWidth
    /\ display_height = DefaultDisplayHeight
    /\ display = << >>
    /\ read_position = 0
    /\ received = << >>
    /\ written = {}
    /\ overflow_checks \in BOOLEAN
    /\ panicked = "no"
    /\ driver_at = "test"
    /\ compiler = CompilerNew
    /\ writes = 0
    /\ compiles = 0
    /\ pressed = {}

\* ---------------------------------------------------------------- actions

\* main has left its loop.
exited == driver_at = "exit"

\* The process runs: nothing has panicked and main has not returned.
Alive == panicked = "no" /\ ~exited

\* computer.load(words) / computer.load_from_slice(words)
Load(words) ==
    /\ Alive
    /\ Becomes(load(Self, words))
    /\ UNCHANGED << driver_at, pressed >>

\* computer.step()
Step ==
    /\ Alive
    /\ Becomes(step(Self))
    /\ UNCHANGED << driver_at, pressed >>

\* computer.next()
Next_opcode ==
    /\ Alive
    /\ Becomes(next_effect(Self))
    /\ UNCHANGED << driver_at, pressed >>

\* computer.write(buf), the in-memory keyboard
WriteKey(buf) ==
    /\ Alive
    /\ Becomes(write_key(Self, buf))
    /\ UNCHANGED << driver_at, pressed >>

\* computer.read(buf), the in-memory display
ReadFrame(buf_len) ==
    /\ Alive
    /\ Becomes(read_frame(Self, buf_len))
    /\ UNCHANGED << driver_at, pressed >>

\* computer.input(reader): a reader with `bytes` available is bound.
BindInput(bytes) ==
    /\ Alive
    /\ Becomes([Self EXCEPT !.input = TRUE, !.input_bytes = bytes])
    /\ UNCHANGED << driver_at, pressed >>

\* computer.output(writer)
BindOutput ==
    /\ Alive
    /\ Becomes([Self EXCEPT !.output = TRUE, !.output_bytes = << >>])
    /\ UNCHANGED << driver_at, pressed >>

\* The environment: a key arrives at the bound reader.
KeyPress(k) ==
    /\ Alive
    /\ input
    /\ Len(input_bytes) < MaxInput
    /\ Becomes([Self EXCEPT !.input_bytes = Append(input_bytes, k)])
    /\ pressed' = pressed \cup {k}
    /\ UNCHANGED driver_at

\* The computer is not touched.
ComputerKept ==
    UNCHANGED << memory, counter, input, input_bytes, output, output_bytes,
                 keyboard, display_address, display_width, display_height,
                 display, read_position, received, written, overflow_checks,
                 panicked, driver_at, pressed >>

\* The compiler can be called: its last compile did not panic.
CompilerAlive == Alive /\ compiler.result # "panic"

\* compiler.write(buf)
CompilerWrite(buf) ==
    /\ CompilerAlive
    /\ writes < MaxWrites
    /\ compiler' = compiler_write(compiler, buf)
    /\ writes' = writes + 1
    /\ UNCHANGED compiles
    /\ ComputerKept

\* The driver writes the source text before it compiles it.
Feed(buf) == compiles = 0 /\ CompilerWrite(buf)

\* compiler.compile()
Compile ==
    /\ CompilerAlive
    /\ compiles < MaxCompiles
    /\ compiler' = compile(compiler)
    /\ compiles' = compiles + 1
    /\ UNCHANGED writes
    /\ ComputerKept

Next ==
    \/ \E words \in ApiPrograms : Load(words)
    \/ Step
    \/ Next_opcode
    \/ \E buf \in KeyBuffers : WriteKey(buf)
    \/ \E n \in BufferSizes : ReadFrame(n)
    \/ \E bytes \in ReaderContents : BindInput(bytes)
    \/ BindOutput
    \/ \E k \in Keys : KeyPress(k)

Spec == Init /\ [][Next]_vars

\* --------------------------------------------------------------- the driver

\* The programs the driver is started with: the examples, one that waits for
\* Ctrl+C, ones that run into a word that is no opcode (at once, after a nop,
\* after a jump, and at the last address), and one that ends at the last
\* address.
DriverPrograms ==
    ExamplePrograms
    \cup { << 15, 2, 0, 3, 8, 2, 2, 3, 2, 11, 2, 15, 1, 14, 0, 0 >>,
           << 18, 0, 0, 0 >>, << 16, 0, 0, 0, 18, 0, 0, 0 >>,
           << 1, 3, 0, 5, 0, MaxWord >>,
           EdgeProgram(18, MaxWord), EdgeProgram(16, MaxWord - 3) }

\* main of bin/chifir.rs up to its loop: a new computer with stdin and stdout
\* bound and the compiled program loaded.
DriverInit ==
    /\ overflow_checks \in BOOLEAN
    /\ driver_at = "test"
    /\ compiler = CompilerNew
    /\ writes = 0
    /\ compiles = 0
    /\ pressed = {}
    /\ \E words \in DriverPrograms :
          LET new == [ memory |-> << >>, counter |-> 0, input |-> TRUE,
                       input_bytes |-> << >>, output |-> TRUE,
                       output_bytes |-> << >>, keyboard |-> None,
                       display_address |-> DefaultDisplayAddress,
                       display_width |-> DefaultDisplayWidth,
                       display_height |-> DefaultDisplayHeight,
                       display |-> << >>, read_position |-> 0,
                       received |-> << >>, written |-> {},
                       panicked |-> "no" ]
              m == load(new, words)
          IN  /\ memory = m.memory
              /\ counter = m.counter
              /\ input = m.input
              /\ input_bytes = m.input_bytes
              /\ output = m.output
              /\ output_bytes = m.output_bytes
              /\ keyboard = m.keyboard
              /\ display_address = m.display_address
              /\ display_width = m.display_width
              /\ display_height = m.display_height
              /\ display = m.display
              /\ read_position = m.read_position
              /\ received = m.received
              /\ written = m.written
              /\ panicked = m.panicked

\* The test of `while vm.next() != 0 { vm.step(); }`: into the body, or out
\* of the loop.
DriverTest ==
    /\ Alive
    /\ driver_at = "test"
    /\ Becomes(grow(Self, counter))
    /\ driver_at' = IF next(Self) # 0 THEN "step" ELSE "exit"
    /\ UNCHANGED pressed

\* The body of the loop: one step, then back to the test unless the step
\* panicked.
DriverStep ==
    /\ Alive
    /\ driver_at = "step"
    /\ Becomes(step(Self))
    /\ driver_at' = IF panicked' = "no" THEN "test" ELSE "step"
    /\ UNCHANGED pressed

DriverLoop == DriverTest \/ DriverStep

DriverNext ==
    \/ DriverTest
    \/ DriverStep
    \/ \E k \in Keys : KeyPress(k)

\* The loop runs whenever it can: main does nothing else.
DriverSpec == DriverInit /\ [][DriverNext]_vars /\ WF_vars(DriverLoop)

\* ------------------------------------------------- main, from source to exit

\* The source texts main is built with, as UTF-8 bytes: the simple Ctrl+C
\* example of the test it_compiles_the_simple_ctrl_c_example, the labelled
\* one of it_compiles_the_complex_ctrl_c_example, and the labelled one of the
\* module documentation ("; Halt when Ctrl+C is pressed.").
SimpleCtrlC ==
    << 10, 32, 32, 32, 32, 32, 32, 32, 32, 102, 32, 50, 32, 48, 32, 51, 32,
       32, 59, 32, 82, 101, 97, 100, 32, 107, 101, 121, 32, 112, 114, 101,
       115, 115, 32, 97, 110, 100, 32, 115, 116, 111, 114, 101, 32, 105, 116,
       32, 105, 110, 32, 77, 91, 50, 93, 10, 32, 32, 32, 32, 32, 32, 32, 32,
       56, 32, 50, 32, 50, 32, 51, 32, 32, 59, 32, 83, 117, 98, 116, 114, 97,
       99, 116, 32, 77, 91, 51, 93, 32, 102, 114, 111, 109, 32, 77, 91, 50,
       93, 32, 97, 110, 100, 32, 115, 116, 111, 114, 101, 32, 116, 104, 101,
       32, 114, 101, 115, 117, 108, 116, 32, 105, 110, 32, 77, 91, 50, 93,
       10, 32, 32, 32, 32, 32, 32, 32, 32, 50, 32, 98, 32, 50, 32, 102, 32,
       32, 59, 32, 73, 102, 32, 77, 91, 50, 93, 32, 101, 113, 117, 97, 108,
       115, 32, 48, 44, 32, 116, 104, 101, 110, 32, 115, 101, 116, 32, 80,
       67, 32, 116, 111, 32, 77, 91, 98, 93, 10, 32, 32, 32, 32, 32, 32, 32,
       32, 49, 32, 101, 32, 48, 32, 48, 32, 32, 59, 32, 69, 108, 115, 101,
       44, 32, 115, 101, 116, 32, 80, 67, 32, 116, 111, 32, 77, 91, 101, 93,
       10, 32, 32, 32, 32, 32, 32, 32, 32 >>

ComplexCtrlC ==
    << 10, 32, 32, 32, 32, 32, 32, 32, 32, 99, 104, 101, 99, 107, 45, 99,
       116, 114, 108, 45, 99, 58, 10, 32, 32, 32, 32, 32, 32, 32, 32, 32, 32,
       107, 101, 121, 32, 120, 32, 32, 32, 32, 32, 32, 32, 32, 32, 32, 32,
       32, 32, 32, 32, 32, 59, 32, 82, 101, 97, 100, 32, 107, 101, 121, 32,
       112, 114, 101, 115, 115, 32, 97, 110, 100, 32, 115, 116, 111, 114,
       101, 32, 105, 116, 32, 105, 110, 32, 77, 91, 120, 93, 10, 32, 32, 32,
       32, 32, 32, 32, 32, 32, 32, 115, 117, 98, 32, 120, 32, 120, 32, 99,
       116, 114, 108, 45, 99, 32, 32, 32, 32, 32, 32, 32, 59, 32, 83, 117,
       98, 116, 114, 97, 99, 116, 32, 77, 91, 99, 116, 114, 108, 45, 99, 93,
       32, 102, 114, 111, 109, 32, 77, 91, 120, 93, 32, 97, 110, 100, 32,
       115, 116, 111, 114, 101, 32, 116, 104, 101, 32, 114, 101, 115, 117,
       108, 116, 32, 105, 110, 32, 77, 91, 120, 93, 10, 32, 32, 32, 32, 32,
       32, 32, 32, 32, 32, 98, 101, 113, 32, 47, 51, 32, 120, 32, 101, 120,
       105, 116, 32, 32, 32, 32, 32, 32, 32, 32, 59, 32, 73, 102, 32, 77, 91,
       120, 93, 32, 101, 113, 117, 97, 108, 115, 32, 48, 44, 32, 116, 104,
       101, 110, 32, 115, 101, 116, 32, 80, 67, 32, 116, 111, 32, 77, 91,
       101, 120, 105, 116, 93, 10, 32, 32, 32, 32, 32, 32, 32, 32, 32, 32,
       108, 112, 99, 32, 47, 50, 32, 99, 104, 101, 99, 107, 45, 99, 116, 114,
       108, 45, 99, 32, 32, 59, 32, 69, 108, 115, 101, 44, 32, 115, 101, 116,
       32, 80, 67, 32, 116, 111, 32, 77, 91, 99, 104, 101, 99, 107, 45, 99,
       116, 114, 108, 45, 99, 93, 10, 10, 32, 32, 32, 32, 32, 32, 32, 32,
       101, 120, 105, 116, 58, 10, 32, 32, 32, 32, 32, 32, 32, 32, 32, 32,
       98, 114, 107, 10, 10, 32, 32, 32, 32, 32, 32, 32, 32, 120, 58, 10, 32,
       32, 32, 32, 32, 32, 32, 32, 32, 32, 110, 111, 112, 10, 10, 32, 32, 32,
       32, 32, 32, 32, 32, 99, 116, 114, 108, 45, 99, 58, 10, 32, 32, 32, 32,
       32, 32, 32, 32, 32, 32, 108, 101, 97, 32, 47, 48, 32, 47, 51, 32, 51,
       10, 32, 32, 32, 32, 32, 32, 32, 32 >>

LabelledCtrlC ==
    << 10, 59, 32, 72, 97, 108, 116, 32, 119, 104, 101, 110, 32, 67, 116,
       114, 108, 43, 67, 32, 105, 115, 32, 112, 114, 101, 115, 115, 101, 100,
       46, 10, 10, 99, 104, 101, 99, 107, 45, 99, 116, 114, 108, 45, 99, 58,
       10, 32, 32, 107, 101, 121, 32, 120, 32, 48, 32, 48, 10, 32, 32, 115,
       117, 98, 32, 120, 32, 120, 32, 99, 116, 114, 108, 45, 99, 10, 32, 32,
       98, 101, 113, 32, 98, 32, 120, 32, 101, 120, 105, 116, 10, 32, 32,
       108, 112, 99, 32, 101, 32, 99, 104, 101, 99, 107, 45, 99, 116, 114,
       108, 45, 99, 32, 48, 10, 10, 101, 120, 105, 116, 58, 10, 32, 32, 98,
       114, 107, 32, 48, 32, 48, 32, 48, 10, 10, 120, 58, 10, 32, 32, 110,
       111, 112, 32, 48, 32, 48, 32, 48, 10, 10, 99, 116, 114, 108, 45, 99,
       58, 10, 32, 32, 108, 101, 97, 32, 49, 56, 32, 49, 98, 32, 51, 10 >>

\* The keys that arrive while main runs: Ctrl+C, Ctrl+D and a letter.
MainKeys == {3, 4, 97}

\* main before anything ran: a new compiler, no computer yet.
MainInit ==
    /\ memory = << >>
    /\ counter = 0
    /\ input = FALSE
    /\ input_bytes = << >>
    /\ output = FALSE
    /\ output_bytes = << >>
    /\ keyboard = None
    /\ display_address = DefaultDisplayAddress
    /\ display_width = DefaultDisplayWidth
    /\ display_height = DefaultDisplayHeight
    /\ display = << >>
    /\ read_position = 0
    /\ received = << >>
    /\ written = {}
    /\ overflow_checks \in BOOLEAN
    /\ panicked = "no"
    /\ driver_at = "write"
    /\ compiler = CompilerNew
    /\ writes = 0
    /\ compiles = 0
    /\ pressed = {}

\* write!(compiler, "{}", source)
MainWrite(source) ==
    /\ driver_at = "write"
    /\ compiler' = compiler_write(compiler, source)
    /\ writes' = writes + 1
    /\ driver_at' = "compile"
    /\ UNCHANGED << memory, counter, input, input_bytes, output, output_bytes,
                    keyboard, display_address, display_width, display_height,
                    display, read_position, received, written,
                    overflow_checks, panicked, compiles, pressed >>

\* compiler.compile(); main drops the Result.
MainCompile ==
    /\ driver_at = "compile"
    /\ compiler' = compile(compiler)
    /\ compiles' = compiles + 1
    /\ driver_at' = "load"
    /\ UNCHANGED << memory, counter, input, input_bytes, output, output_bytes,
                    keyboard, display_address, display_width, display_height,
                    display, read_position, received, written,
                    overflow_checks, panicked, writes, pressed >>

\* Computer::new().input(stdin).output(stdout), then vm.load(bytecodes).
MainLoad ==
    /\ driver_at = "load"
    /\ CompilerAlive
    /\ Becomes(load([Self EXCEPT !.input = TRUE, !.output = TRUE],
                    compiler.bytecodes))
    /\ driver_at' = "test"
    /\ UNCHANGED pressed

MainNext ==
    \/ \E source \in {SimpleCtrlC, ComplexCtrlC, LabelledCtrlC} :
          MainWrite(source)
    \/ MainCompile
    \/ MainLoad
    \/ DriverTest
    \/ DriverStep
    \/ \E k \in MainKeys : KeyPress(k)

\* The loop runs whenever it can: once the program is loaded, main does
\* nothing else.
MainSpec == MainInit /\ [][MainNext]_vars /\ WF_vars(DriverLoop)

\* The computer under load, step, next and write_key alone (no reader, no
\* writer, no read of the frame), over the wide family of programs.
ExecNext ==
    \/ \E words \in LoadChoices(Self) : Load(words)
    \/ Step
    \/ Next_opcode
    \/ \E buf \in KeyBuffers : WriteKey(buf)

ExecSpec == Init /\ [][ExecNext]_vars

\* The computer and its keyboard: load, step, write_key, a reader bound and
\* keys arriving at it (no writer, no read of the frame).
KeyNext ==
    \/ \E words \in KeyPrograms : Load(words)
    \/ Step
    \/ \E buf \in KeyBuffers : WriteKey(buf)
    \/ \E bytes \in ReaderContents : BindInput(bytes)
    \/ \E k \in Keys : KeyPress(k)

KeySpec == Init /\ [][KeyNext]_vars

\* The computer and its display: load, step, a writer bound and the frame
\* read back (no reader, no write_key).
DisplayNext ==
    \/ \E words \in DisplayPrograms : Load(words)
    \/ Step
    \/ BindOutput
    \/ \E buf_len \in BufferSizes : ReadFrame(buf_len)

DisplaySpec == Init /\ [][DisplayNext]_vars

\* The computer and the geometry of its display: programs that set a geometry
\* with cfv and draw it.  The window is two bands inside the address space;
\* it has no width, or no height; it ends at the last address; it is one
\* cell at the last address, ending beyond it; its area is 2^WordBits, or
\* half as much again, beyond the word; and a drw under the default geometry,
\* and one at the top of the address space.
GeometryPrograms ==
    { << 17, 8, 2, 7, 14, 0, 0, 0, 1, 0, 0, 1, 0, 0, 0, 0, 0, 0, 0, 0, 0, 1 >>,
      << 17, 5, 0, 3, 14, 0, 0, 0 >>,
      << 17, 5, 3, 0, 14, 0, 0, 0 >>,
      << 17, MaxWord - 2, 1, 2, 14, 0, 0, 0 >>,
      << 17, MaxWord, 1, 1, 14, 0, 0, 0 >>,
      << 17, 0, Modulus \div 2, 2, 14, 0, 0, 0 >>,
      << 17, 4, Modulus \div 2, 3, 14, 0, 0, 0 >>,
      << 14, 0, 0, 0 >>,
      EdgeProgram(14, MaxWord - 3) }

GeometryNext ==
    \/ \E words \in GeometryPrograms : Load(words)
    \/ Step
    \/ BindOutput

GeometrySpec == Init /\ [][GeometryNext]_vars

\* The computer on instructions that overlap their data: one instruction at 0
\* whose A is one of its own four words, or its B, or its C, or both, with
\* B or C inside the instruction as well, followed by three data cells.
OverlapPrograms ==
    { << op >> \o abc \o d :
        op \in 1 .. 17,
        abc \in { << 0, 5, 6 >>, << 1, 5, 6 >>, << 2, 5, 6 >>, << 3, 5, 6 >>,
                  << 4, 4, 5 >>, << 4, 5, 4 >>, << 4, 4, 4 >>, << 2, 2, 3 >>,
                  << 3, 2, 3 >>, << 1, 0, 1 >> },
        d \in { << 1, 2, 11 >>, << 6, 0, MaxWord >> } }

\* The program is loaded into a new computer, which then steps; write_key
\* supplies the byte of the key instructions.
OverlapNext ==
    \/ \E words \in OverlapPrograms : memory = << >> /\ Load(words)
    \/ Step
    \/ \E buf \in KeyBuffers : WriteKey(buf)

OverlapSpec == Init /\ [][OverlapNext]_vars

\* The computer loaded again and again: a key instruction, another one, a
\* program that moves the display and draws, and the empty program; loads,
\* steps, write_key and reads of the frame in any order.
ReloadPrograms ==
    { << >>, << 15, 1, 0, 0 >>, << 15, 4, 0, 0, 0 >>,
      << 17, 4, 2, 7, 14, 0, 0, 0 >> }

ReloadNext ==
    \/ \E words \in ReloadPrograms : Load(words)
    \/ Step
    \/ \E buf \in KeyBuffers : WriteKey(buf)
    \/ \E buf_len \in BufferSizes : ReadFrame(buf_len)

ReloadSpec == Init /\ [][ReloadNext]_vars

\* The compiler fed whole source lines and then run.
AssembleNext ==
    \/ \E buf \in LineChunks : Feed(buf)
    \/ Compile

AssembleSpec == Init /\ [][AssembleNext]_vars

\* The compiler fed source text a few bytes at a time and then run.
SplitNext ==
    \/ \E buf \in CharChunks : Feed(buf)
    \/ Compile

SplitSpec == Init /\ [][SplitNext]_vars

\* --------------------------------------------------------- the pixel encoder

\* The windows sixel::from is called with: those of the tests of sixel.rs
\* (the last one is the capital A), and every window of up to MaxWindow cells
\* that are 0, 1 or the largest word.
SixelWindows ==
    { << 0, 0, 0, 0, 0, 0 >>, << 0, 0, 0, 1, 1, 1 >>, << 1, 1, 1, 0, 0, 0 >>,
      << 1, 1, 1, 1, 1, 1 >>,
      << 0, 1, 1, 0, 1, 0, 0, 1, 1, 1, 1, 1, 1, 0, 0, 1, 1, 0, 0, 1, 0, 0, 0,
         0 >> }
    \cup UNION { [1 .. n -> {0, 1, MaxWord}] : n \in 0 .. MaxWindow }

\* A caller about to call sixel::from(memory, width, height, border): the
\* slice, the width and the height are held where render takes them from.
\* The heights are none, less than a band, a band, more than a band and more
\* than two bands.
SixelInit ==
    /\ memory \in SixelWindows
    /\ counter = 0
    /\ input = FALSE
    /\ input_bytes = << >>
    /\ output = FALSE
    /\ output_bytes = << >>
    /\ keyboard = None
    /\ display_address = 0
    /\ display_width \in 0 .. DefaultDisplayWidth + 2
    /\ display_height \in 0 .. 2 * DefaultDisplayHeight + 1
    /\ display = << >>
    /\ read_position = 0
    /\ received = << >>
    /\ written = {}
    /\ overflow_checks \in BOOLEAN
    /\ panicked = "no"
    /\ driver_at = "test"
    /\ compiler = CompilerNew
    /\ writes = 0
    /\ compiles = 0
    /\ pressed = {}

\* sixel::from(&memory, width, height, border); the caller keeps the string,
\* as render does in self.display.
Encode(border) ==
    /\ display' = from(memory, display_width, display_height, border)
    /\ UNCHANGED << memory, counter, input, input_bytes, output, output_bytes,
                    keyboard, display_address, display_width, display_height,
                    read_position, received, written, overflow_checks,
                    panicked, driver_at, compiler, writes, compiles,
                    pressed >>

SixelNext == \E border \in BOOLEAN : Encode(border)

SixelSpec == SixelInit /\ [][SixelNext]_vars

\* The compiler fed label lines, comments and instructions and then run.
LabelNext ==
    \/ \E buf \in LabelChunks : Feed(buf)
    \/ Compile

LabelSpec == Init /\ [][LabelNext]_vars

\* ------------------------------------------------------------ the properties

\* M[i] as a program sees it: a cell past the end of the vector reads as zero.
Cell(mem, i) == IF i < Len(mem) THEN mem[i + 1] ELSE 0

\* The word at PC + k of the instruction about to be stepped, addresses taken
\* modulo 2^WordBits.
Fetched(k) == Cell(memory, (counter + k) % Modulus)

\* The step returned to its caller.
Returned == panicked' = "no"

\* No cell changed its value, except perhaps the cells of `changed`; the vector
\* only got longer.
OthersKept(changed) ==
    /\ Len(memory') >= Len(memory)
    /\ \A i \in 0 .. Len(memory') - 1 :
          i \notin changed => memory'[i + 1] = Cell(memory, i)

\* PC moved to the next instruction.
Advanced == counter' = (counter + 4) % Modulus

\* C1: step() completes without error from every state: whatever the memory,
\* the PC (also within 4 of the top of the address space), the display
\* geometry, the last key and the opcode word, step() returns normally and
\* leaves PC a word.
C1_StepNeverFails == [][Step => (Returned /\ counter' \in Word)]_vars

\* C1, the states that refute it: a step that did not return, at one of the
\* four places where it can stop.
C1_StepPanicked == panicked \in PanicSites

\* C1, what is left of it: whether or not the step returns, PC stays a word.
C1_CounterIsWord == counter \in Word

\* C2: in any sequence of load, step and next_opcode every memory access at
\* index i (the four fetches of step at PC .. PC+3 included) succeeds and
\* leaves the memory at least i + 1 cells long, and a cell never written by
\* load or by an opcode reads as zero.
C2_MemoryAccess ==
    [][/\ Step => /\ Returned
                  /\ \A k \in 0 .. 3 :
                        Len(memory') >= ((counter + k) % Modulus) + 1
       /\ Next_opcode => Len(memory') >= counter + 1
       /\ \A i \in 0 .. Len(memory') - 1 :
             i \notin written' => memory'[i + 1] = 0]_vars

\* C2, the state that refutes it: a fetch of step at PC + k did not succeed,
\* the index PC + k overflowed in a build that checks overflow.
C2_FetchStopped ==
    panicked = "fetch" /\ overflow_checks /\ counter >= MaxWord - 2

\* C2, the part that holds in every state: a cell no load and no opcode wrote
\* is zero.
C2_UnwrittenIsZero ==
    \A i \in 0 .. Len(memory) - 1 : i \notin written => memory[i + 1] = 0

\* C2, the part that holds of every step that returns: the four fetches left
\* the memory long enough.
C2_FetchGrowsOnReturn ==
    [][(Step /\ Returned)
          => \A k \in 0 .. 3 :
                Len(memory') >= ((counter + k) % Modulus) + 1]_vars

\* C3: a step() whose fetched opcode is 0, or any word outside 0 .. 17, leaves
\* PC unchanged and leaves the value of every memory cell unchanged (the fetch
\* may only extend the memory with zero cells).
C3_HaltLeavesState ==
    [][(Step /\ (Fetched(0) = 0 \/ Fetched(0) > 17))
          => (counter' = counter /\ OthersKept({}))]_vars

\* C3, its case: the word 18 stored at MaxWord - 3 was stepped (the fetch of
\* its operands made the memory span the whole address space) and PC is still
\* there.
C3_Witness ==
    /\ counter = MaxWord - 3
    /\ Len(memory) = Modulus
    /\ memory[counter + 1] = 18
    /\ panicked = "no"

\* The halt test of a caller: next_opcode() returns 0.
Halted == Cell(memory, counter) = 0

\* A step, a next_opcode or a write_key: the operations of a caller that
\* does not load.
NotLoad ==
    \/ Step
    \/ Next_opcode
    \/ \E buf \in KeyBuffers : WriteKey(buf)

\* C4: halt is absorbing: once next_opcode() returns 0, as long as load is not
\* called every later step() (and any write_key) leaves PC and all memory
\* values unchanged and next_opcode() keeps returning 0.
C4_HaltIsAbsorbing ==
    [][(Halted /\ NotLoad)
          => (counter' = counter /\ OthersKept({}) /\ Halted')]_vars

\* C4, its case: the program [1, 4, 0, 0, 2] jumped to the zero word at 2, was
\* stepped there (the fetch made the memory six cells long), a key was
\* written, and the computer is still halted at 2.
C4_Witness ==
    /\ counter = 2
    /\ memory = << 1, 4, 0, 0, 2, 0 >>
    /\ keyboard = Some(3)
    /\ Halted

\* C4, its consequence for the driver: the test of the loop leaves the loop
\* exactly when PC points at a zero word, and enters the body otherwise.
C4_DriverExitsAtHalt == [][DriverTest => (exited' <=> Halted)]_vars

\* C4, once left the loop stays left.
C4_DriverStaysExited == [][exited => exited']_vars

\* The driver loop is at an instruction whose opcode is none of 0 .. 17.
UnknownAtPC == Cell(memory, counter) > 17

\* C5 as stated: when the driver loop reaches an instruction whose opcode is
\* outside 0 .. 17, the caller's loop halts.
C5_UnknownOpcodeHaltsLoop == UnknownAtPC ~> exited

\* C5 as the code has it: when the driver loop reaches an instruction whose
\* opcode is outside 0 .. 17, the loop does not halt: every pass leaves PC and
\* the memory values as they are, the loop's test keeps seeing that non-zero
\* word, and the loop is never left.
C5_UnknownOpcodeSpins ==
    [][UnknownAtPC
          => (counter' = counter /\ OthersKept({}) /\ UnknownAtPC'
              /\ ~exited')]_vars

\* C5, its case: the driver ran [1, 3, 0, 5, 0, MaxWord] to the unknown word at
\* 5 and stepped it (the fetch made the memory nine cells long); the loop is
\* still running there.
C5_Witness ==
    /\ counter = 5
    /\ memory = << 1, 3, 0, 5, 0, MaxWord, 0, 0, 0 >>
    /\ UnknownAtPC
    /\ ~exited
    /\ panicked = "no"

\* The operands A, B, C of the instruction about to be stepped, and the cells
\* before and after the step.
OperandA == Fetched(1)

OperandB == Fetched(2)

OperandC == Fetched(3)

M(i) == Cell(memory, i)

NewM(i) == Cell(memory', i)

\* The bitwise AND of two words.
RECURSIVE BitAnd(_, _)
BitAnd(x, y) ==
    IF x = 0 \/ y = 0 THEN 0
    ELSE 2 * BitAnd(x \div 2, y \div 2)
         + (IF x % 2 = 1 /\ y % 2 = 1 THEN 1 ELSE 0)

\* The instruction about to be stepped lies at the top of the address space
\* and the step stopped on it in a build that checks overflow: fetching its
\* operands, or adding 4 to PC.
StoppedAtTop(opcodes) ==
    /\ overflow_checks
    /\ panicked \in {"fetch", "advance"}
    /\ counter >= MaxWord - 3
    /\ Cell(memory, counter) \in opcodes

\* What lpc and beq do.
ControlTransferEffect ==
    /\ Fetched(0) = 1 => counter' = M(OperandA)
    /\ Fetched(0) = 2 =>
          counter' = IF M(OperandB) = 0 THEN M(OperandA)
                     ELSE (counter + 4) % Modulus
    /\ OthersKept({})

\* C6: control transfer: for every memory and operands, lpc (1) sets PC to
\* M[A]; beq (2) sets PC to M[A] when M[B] = 0 and to PC + 4 otherwise;
\* neither changes the value of any memory cell.
C6_ControlTransfer ==
    [][(Step /\ Fetched(0) \in {1, 2})
          => (Returned /\ ControlTransferEffect)]_vars

\* C6, the state that refutes it: a beq at the top of the address space whose
\* M[B] is not zero stopped the step instead of moving PC on by 4.
C6_StoppedAtTop == StoppedAtTop({1, 2})

\* C6, what is left of it: an lpc or beq step that returns does transfer
\* control as stated.
C6_ControlTransferOnReturn ==
    [][(Step /\ Fetched(0) \in {1, 2} /\ Returned)
          => ControlTransferEffect]_vars

\* What add, sub and mul do.
ArithmeticEffect ==
    /\ Fetched(0) = 7 =>
          NewM(OperandA) = (M(OperandB) + M(OperandC)) % Modulus
    /\ Fetched(0) = 8 =>
          NewM(OperandA) = (M(OperandB) + Modulus - M(OperandC)) % Modulus
    /\ Fetched(0) = 9 =>
          NewM(OperandA) = (M(OperandB) * M(OperandC)) % Modulus
    /\ Advanced

\* C7: add (7), sub (8) and mul (9) store in M[A] the result of M[B] op M[C]
\* reduced modulo 2^WordBits for every pair of operand values (max + 1 = 0,
\* 2 - 11 = 2^WordBits - 9), never fail, and advance PC by 4.
C7_WrappingArithmetic ==
    [][(Step /\ Fetched(0) \in {7, 8, 9})
          => (Returned /\ ArithmeticEffect)]_vars

\* C7, the state that refutes it: an add, sub or mul at the top of the address
\* space stopped the step.
C7_StoppedAtTop == StoppedAtTop({7, 8, 9})

\* C7, what is left of it: an add, sub or mul step that returns has stored the
\* modular result and advanced PC by 4.
C7_WrappingArithmeticOnReturn ==
    [][(Step /\ Fetched(0) \in {7, 8, 9} /\ Returned)
          => ArithmeticEffect]_vars

\* What div and mod do.
DivisionEffect ==
    /\ Fetched(0) = 10 =>
          NewM(OperandA) = IF M(OperandC) = 0 THEN 0
                           ELSE M(OperandB) \div M(OperandC)
    /\ Fetched(0) = 11 =>
          NewM(OperandA) = IF M(OperandC) = 0 THEN 0
                           ELSE M(OperandB) % M(OperandC)
    /\ Advanced

\* C8: div (10) and mod (11) store 0 in M[A] when M[C] = 0, and otherwise the
\* unsigned truncating quotient, respectively remainder, of M[B] by M[C]; in
\* both cases PC advances by 4 and no error is raised.
C8_SafeDivision ==
    [][(Step /\ Fetched(0) \in {10, 11})
          => (Returned /\ DivisionEffect)]_vars

\* C8, the state that refutes it: a div or mod at the top of the address space
\* stopped the step.
C8_StoppedAtTop == StoppedAtTop({10, 11})

\* C8, what is left of it: a div or mod step that returns has stored the
\* quotient, the remainder or 0 and advanced PC by 4.
C8_SafeDivisionOnReturn ==
    [][(Step /\ Fetched(0) \in {10, 11} /\ Returned) => DivisionEffect]_vars

\* What spc, lea, lra and sra do.
DataMovementEffect ==
    /\ Fetched(0) = 3 =>
          NewM(OperandA) = counter /\ OthersKept({OperandA})
    /\ Fetched(0) = 4 =>
          NewM(OperandA) = M(OperandB) /\ OthersKept({OperandA})
    /\ Fetched(0) = 5 =>
          NewM(OperandA) = M(M(OperandB)) /\ OthersKept({OperandA})
    /\ Fetched(0) = 6 =>
          NewM(M(OperandB)) = M(OperandA) /\ OthersKept({M(OperandB)})
    /\ Advanced

\* C9: data movement: lea (4) sets M[A] to M[B]; lra (5) sets M[A] to M[M[B]];
\* sra (6) sets M[M[B]] to M[A]; spc (3) sets M[A] to the PC of the spc
\* instruction itself; each advances PC by 4 and changes no other cell's
\* value.
C9_DataMovement ==
    [][(Step /\ Fetched(0) \in {3, 4, 5, 6})
          => (Returned /\ DataMovementEffect)]_vars

\* C9, the state that refutes it: an spc, lea, lra or sra at the top of the
\* address space stopped the step.
C9_StoppedAtTop == StoppedAtTop({3, 4, 5, 6})

\* C9, what is left of it: an spc, lea, lra or sra step that returns has moved
\* the word as stated, changed no other cell and advanced PC by 4.
C9_DataMovementOnReturn ==
    [][(Step /\ Fetched(0) \in {3, 4, 5, 6} /\ Returned)
          => DataMovementEffect]_vars

\* What cmp and nad do.
CompareEffect ==
    /\ Fetched(0) = 12 =>
          NewM(OperandA) = IF M(OperandB) < M(OperandC) THEN 1 ELSE 0
    /\ Fetched(0) = 13 =>
          NewM(OperandA) = MaxWord - BitAnd(M(OperandB), M(OperandC))
    /\ Advanced

\* C10: cmp (12) stores 1 in M[A] when M[B] < M[C] as unsigned words and 0
\* otherwise; nad (13) stores the bitwise complement of (M[B] AND M[C]); both
\* advance PC by 4.
C10_CompareAndNand ==
    [][(Step /\ Fetched(0) \in {12, 13})
          => (Returned /\ CompareEffect)]_vars

\* C10, the state that refutes it: a cmp or nad at the top of the address
\* space stopped the step.
C10_StoppedAtTop == StoppedAtTop({12, 13})

\* C10, what is left of it: a cmp or nad step that returns has stored the
\* stated word and advanced PC by 4.
C10_CompareAndNandOnReturn ==
    [][(Step /\ Fetched(0) \in {12, 13} /\ Returned) => CompareEffect]_vars

\* The step about to be taken executes a key instruction.
KeyStep == Step /\ Fetched(0) = 15

\* What key does when no reader is bound.
KeyWithoutReaderEffect ==
    /\ keyboard # None =>
          /\ NewM(OperandA) = keyboard[1]
          /\ OthersKept({OperandA})
          /\ Advanced
    /\ keyboard = None => counter' = counter /\ OthersKept({})

\* C11: key (15) with no reader bound: if the last-key register holds a byte
\* k, the step writes k zero-extended into M[A] and advances PC by 4; if the
\* register is empty, PC does not advance and no memory value changes, so
\* repeated steps spin on the key instruction until write_key supplies a byte.
C11_KeyWithoutReader ==
    [][(KeyStep /\ ~input) => (Returned /\ KeyWithoutReaderEffect)]_vars

\* C11, the state that refutes it: with no reader bound and a byte in the
\* register, a key at the top of the address space stored the byte and then
\* stopped the step instead of advancing PC.
C11_StoppedAtTop ==
    /\ StoppedAtTop({15})
    /\ ~input
    /\ keyboard # None
    /\ panicked = "advance"
    /\ Cell(memory, Cell(memory, (counter + 1) % Modulus)) = keyboard[1]

\* C11, what is left of it: a key step without a reader that returns has
\* stored the register's byte and advanced PC by 4, or has changed nothing
\* when the register was empty.
C11_KeyWithoutReaderOnReturn ==
    [][(KeyStep /\ ~input /\ Returned) => KeyWithoutReaderEffect]_vars

\* What key does when a reader is bound: the batch is all of input_bytes.
KeyWithReaderEffect ==
    /\ input_bytes' = << >>
    /\ input_bytes # << >> =>
          /\ NewM(OperandA) = input_bytes[Len(input_bytes)]
          /\ OthersKept({OperandA})
          /\ Advanced
    /\ (input_bytes = << >> /\ keyboard = None) =>
          counter' = counter /\ OthersKept({})

\* C12: key (15) with a reader bound: the step drains all bytes currently
\* available; if the batch is non-empty, M[A] receives the final byte of the
\* batch (earlier bytes are discarded) and PC advances by 4; if the batch is
\* empty and there is no prior key, PC and memory values are unchanged.
C12_KeyWithReader ==
    [][(KeyStep /\ input) => (Returned /\ KeyWithReaderEffect)]_vars

\* C12, the state that refutes it: with a reader bound and the register
\* empty, a key at the top of the address space drained the reader, stored a
\* byte and then stopped the step instead of advancing PC.
C12_StoppedAtTop ==
    /\ StoppedAtTop({15})
    /\ input
    /\ input_bytes = << >>
    /\ keyboard = None
    /\ panicked = "advance"
    /\ Cell(memory, Cell(memory, (counter + 1) % Modulus)) \in Keys

\* C12, what is left of it: a key step with a reader that returns has drained
\* the reader and stored the final byte and advanced PC by 4, or has changed
\* nothing when there was no byte and no prior key.
C12_KeyWithReaderOnReturn ==
    [][(KeyStep /\ input /\ Returned) => KeyWithReaderEffect]_vars

\* The instruction was fetched and exec ran (the step did not stop in the
\* fetch of an operand).
Executed == panicked' # "fetch"

\* The reader yields no byte to the step about to be taken.
NoBatch == ~input \/ input_bytes = << >>

C14_KeyConsumesRegister ==
    [][(KeyStep /\ keyboard # None /\ Executed) =>
          /\ NoBatch => NewM(OperandA) = keyboard[1]
          /\ keyboard' = None]_vars

\* C14 as the code has it: a key step that finds a value in the last-key
\* register copies it: the byte is written into M[A] and is still held in
\* the register afterwards; only write_key changes the register, so one
\* write_key is delivered to every key step until the next write_key.
C14_KeyKeepsRegister ==
    [][/\ (KeyStep /\ keyboard # None) =>
             /\ keyboard' = keyboard
             /\ (NoBatch /\ Executed) => NewM(OperandA) = keyboard[1]
       /\ keyboard' # keyboard => \E buf \in KeyBuffers : WriteKey(buf)]_vars

\* C14, its case: with no reader bound, one write_key of 97 was delivered to
\* both key steps of [15, 6, 0, 0, 15, 7], into M[6] and M[7], and the
\* register still holds it.
C14_Witness ==
    /\ memory = << 15, 6, 0, 0, 15, 7, 97, 97 >>
    /\ counter = 8
    /\ ~input
    /\ keyboard = Some(97)
    /\ panicked = "no"

DrwStep == Step /\ Fetched(0) = 14

\* The display window: display_width * display_height cells from
\* display_address on, cells never touched reading as zero.
Window ==
    [i \in 1 .. display_width * display_height |->
        Cell(memory, display_address + i - 1)]

\* The frame of a refresh: 1B 5B 31 3B 31 48 (cursor home), 1B 50 71 (Sixel
\* begin), the PixelEncoder payload of the window, 1B 5C (Sixel end).
Frame ==
    << 27, 91, 49, 59, 49, 72 >> \o << 27, 80, 113 >>
        \o from(Window, display_width, display_height, TRUE)
        \o << 27, 92 >>

\* What the spec says a drw step does.
DrwEffect ==
    /\ display' = Frame
    /\ output => output_bytes' = Frame
    /\ Advanced

\* C16 as stated: every drw step emits a frame that is exactly the
\* cursor-home bytes, then Sixel begin, then the PixelEncoder payload of the
\* display window, then Sixel end; and the step advances PC by 4.
C16_DrawEmitsFrame == [][DrwStep => (Returned /\ DrwEffect)]_vars

\* C16, where it fails: a drw whose window ends beyond the last address
\* stopped in render, before any frame was built.
C16_RenderStopped ==
    /\ panicked \in {"area", "slice"}
    /\ Cell(memory, counter) = 14
    /\ display_address + display_width * display_height > MaxWord
    /\ display = << >>

\* C16 for the steps that return: the frame is exactly as the spec lays it
\* out, it is what the bound writer gets, PC advances by 4 and no memory
\* value changes.
C16_DrawEmitsFrameOnReturn ==
    [][(DrwStep /\ Returned) => (DrwEffect /\ OthersKept({}))]_vars

\* What has been read out of the retained frame is its first read_position
\* bytes.
ReceivedIsPrefix ==
    /\ read_position <= Len(display)
    /\ received = SubSeq(display, 1, read_position)

\* The drw step about to be taken gets as far as building its frame.
DrwRenders == DrwStep /\ panicked' \notin {"fetch", "area", "slice"}

\* C17: after any drw step, with or without a bound writer, the interpreter
\* retains the frame just emitted; successive read_frame calls return
\* consecutive non-overlapping chunks whose concatenation is exactly that
\* frame and then return 0 bytes; a later drw replaces the retained frame and
\* read_frame restarts from the first byte of the new frame.
C17_FrameReadInOrder ==
    /\ []ReceivedIsPrefix
    /\ [][/\ DrwRenders =>
                /\ display' = Frame
                /\ read_position' = 0
                /\ received' = << >>
          /\ \A buf_len \in BufferSizes :
                ReadFrame(buf_len) =>
                   /\ display' = display
                   /\ Len(received') - Len(received) =
                         IF Len(display) - read_position < buf_len
                         THEN Len(display) - read_position
                         ELSE buf_len
                   /\ read_position = Len(display) =>
                         received' = received /\ received = display
          /\ display' # display => DrwStep]_vars

\* C17, its case: with no writer bound, the second drw of the program that
\* changes a pixel between its two refreshes replaced the frame, and the new
\* frame, longer than one buffer, has been read out whole.
C17_Witness ==
    /\ ~output
    /\ Len(memory) = 33
    /\ memory[21] = 2
    /\ counter = 16
    /\ Len(display) > ChunkUnit
    /\ received = display
    /\ read_position = Len(display)

\* The step about to be taken executes cfv.
CfvStep == Step /\ Fetched(0) = 17

\* The display geometry.
Geometry == << display_address, display_width, display_height >>

\* What the spec says a cfv step does.
CfvEffect ==
    /\ Geometry' = << OperandA, OperandB, OperandC >>
    /\ OthersKept({})
    /\ Advanced

\* C18 as stated: cfv sets display_base, display_width and display_height
\* to the raw operand words A, B, C (not to M[A], M[B], M[C]), changes no
\* memory value, and advances PC by 4; the geometry then persists until the
\* next cfv.
C18_ConfigureDisplay ==
    [][/\ CfvStep => (Returned /\ CfvEffect)
       /\ Geometry' # Geometry => CfvStep]_vars

\* C18, where it fails: a cfv at the top of the address space stopped at
\* its PC advance.
C18_StoppedAtTop ==
    /\ StoppedAtTop({17})
    /\ panicked = "advance"
    /\ counter = MaxWord - 3

\* C18 for the steps that return: the geometry is the raw operands, no
\* memory value changes, PC advances by 4; and no step, load, next or
\* write_key other than a cfv step changes the geometry.
C18_ConfigureDisplayOnReturn ==
    [][/\ (CfvStep /\ Returned) => CfvEffect
       /\ Geometry' # Geometry => CfvStep]_vars

\* C19: load(words), called in any state after any number of steps, makes
\* dump() equal exactly to words (no cells of the previous program survive,
\* including cells grown by earlier accesses) and sets PC to 0.
C19_LoadReplacesMemory ==
    [][\A words \in LoadChoices(Self) :
          Load(words) => (memory' = words /\ counter' = 0)]_vars

\* C19, its case: [1, 4, 0, 0, 2] was loaded over a program whose cfv had
\* moved the display; none of the cells of that program are left and PC is 0.
C19_Witness ==
    /\ memory = << 1, 4, 0, 0, 2 >>
    /\ counter = 0
    /\ Geometry = << 4, 2, 7 >>

\* C20: next_opcode() returns M[PC] and changes neither PC, nor the value of
\* any memory cell, nor the last-key register, nor the display state; its
\* only effect is that memory length becomes at least PC+1.
C20_NextOnlyGrows ==
    [][Next_opcode =>
          /\ next(Self) = Cell(memory, counter)
          /\ counter' = counter
          /\ OthersKept({})
          /\ Len(memory') = IF Len(memory) > counter THEN Len(memory)
                            ELSE counter + 1
          /\ keyboard' = keyboard
          /\ Geometry' = Geometry
          /\ UNCHANGED << display, read_position, output, output_bytes,
                          input, input_bytes, panicked >>]_vars

\* C20, its case: after the lpc of [1, 2, 4, 0] set PC to 4, next_opcode grew
\* the memory by the one cell at PC and left PC there.
C20_Witness ==
    /\ memory = << 1, 2, 4, 0, 0 >>
    /\ counter = 4
    /\ panicked = "no"

\* ------------------------------------------------------ the source text

\* A compiler assembles a source text: its first compile, the single shot of
\* the assembler, runs on bytes that are valid UTF-8.
FirstCompile ==
    /\ compiles = 0
    /\ compiles' = 1
    /\ from_utf8(compiler.assembly).ok
    /\ Compile

\* The source text handed to the compiler so far (valid UTF-8).
Source == from_utf8(compiler.assembly).chars

\* A terminator of a text is at i: an LF, VT, FF, NEL, LS, PS or CR, a CR LF
\* pair being one terminator, found at its CR.
BreakAt(text, i) ==
    /\ text[i] \in Terminators
    /\ ~(text[i] = LF /\ i > 1 /\ text[i - 1] = CR)

\* The first char behind the terminator at i.
Behind(text, i) ==
    IF text[i] = CR /\ i < Len(text) /\ text[i + 1] = LF THEN i + 2 ELSE i + 1

\* The lines of a text, in order and without their terminators: a line is
\* ended by a terminator, the last one by the end of the text, and that last
\* one is a line when it is not empty.
Lines(text) ==
    LET breaks(i) == BreakAt(text, i)
        break == SelectSeq([i \in 1 .. Len(text) |-> i], breaks)
        count == Len(break)
        start(k) == IF k = 1 THEN 1 ELSE Behind(text, break[k - 1])
        last == IF count = 0 THEN 1 ELSE Behind(text, break[count])
        ended == [k \in 1 .. count |-> SubSeq(text, start(k), break[k] - 1)]
    IN  IF last <= Len(text)
        THEN Append(ended, SubSeq(text, last, Len(text)))
        ELSE ended

\* The part of a line in front of its comment.
BeforeComment(line) ==
    LET marks == {i \in 1 .. Len(line) : line[i] = Semicolon}
    IN  IF marks = {} THEN line
        ELSE SubSeq(line, 1, (CHOOSE i \in marks : \A j \in marks : i <= j) - 1)

\* A line with nothing but whitespace in front of its comment, if any.
BlankOrComment(line) ==
    \A i \in 1 .. Len(BeforeComment(line)) : line[i] \in White_Space

\* A label line: there is a ':' in front of its comment.
LabelLine(line) ==
    /\ ~BlankOrComment(line)
    /\ \E i \in 1 .. Len(BeforeComment(line)) : line[i] = Colon

\* An instruction line: not empty after trimming, not comment-only and not a
\* label line.
InstructionLine(line) == ~BlankOrComment(line) /\ ~LabelLine(line)

\* The lines of the source text handed to the compiler so far.
SourceLines == Lines(Source)

\* The positions of the label lines among some lines, and those of the
\* instruction lines.
LabelsOf(lines) == {k \in 1 .. Len(lines) : LabelLine(lines[k])}

InstructionsOf(lines) == {k \in 1 .. Len(lines) : InstructionLine(lines[k])}

\* The number of instruction lines of a text.
InstructionLines(text) == Cardinality(InstructionsOf(Lines(text)))

\* C21 as stated: assembler output length is exactly 4 times the number of
\* instruction lines (lines that are non-empty after trimming, not
\* comment-only, and not label lines), for every source text; in particular
\* it is always a multiple of 4 and lines with fewer or more than four tokens
\* still contribute exactly four words.
C21_OutputLength ==
    [][FirstCompile =>
          /\ compiler'.result = "ok"
          /\ Len(compiler'.bytecodes) = 4 * InstructionLines(Source)]_vars

\* C21, where it fails: the compile stopped in an instruction of which it had
\* pushed the opcode but not all three operands.
C21_StoppedInInstruction ==
    /\ overflow_checks
    /\ compiler.result = "panic"
    /\ Len(compiler.bytecodes) % 4 # 0

\* C21 for the compiles that return: the output is four words for every
\* instruction line of the source, whatever the number of its tokens.
C21_OutputLengthOnReturn ==
    [][(FirstCompile /\ compiler'.result = "ok") =>
          Len(compiler'.bytecodes) = 4 * InstructionLines(Source)]_vars

\* The name a label line defines: its text from the first char that is not
\* whitespace up to the first ':'.
LabelName(line) ==
    LET colons == {i \in 1 .. Len(line) : line[i] = Colon}
        colon == CHOOSE i \in colons : \A j \in colons : i <= j
        inked == {i \in 1 .. colon - 1 : line[i] \notin White_Space}
    IN  IF inked = {} THEN << >>
        ELSE SubSeq(line, CHOOSE i \in inked : \A j \in inked : i <= j,
                    colon - 1)

\* The address of the instruction at position k, the instructions being at
\* the positions is: four words for every instruction in front of it.
AddressOf(is, k) == 4 * Cardinality({j \in is : j < k})

\* The address of the next instruction behind position k, the end address
\* when there is none.
NextAddress(is, k) ==
    LET behind == {j \in is : j > k}
    IN  IF behind = {} THEN 4 * Cardinality(is)
        ELSE AddressOf(is, CHOOSE j \in behind : \A i \in behind : j <= i)

\* The label line at position k is the last of the lines to define its name.
LastDefinition(lines, k) ==
    \A j \in LabelsOf(lines) :
        LabelName(lines[j]) = LabelName(lines[k]) => j <= k

\* C22: a label defined on a line by itself binds to the address of the next
\* emitted instruction, or to the end address (4 times the total of
\* instruction lines) when no instruction follows; consecutive label lines
\* bind to the same address. The names of the label table are those of the
\* label lines, each bound by its definition (the last one, if repeated).
C22_LabelBindsToNextInstruction ==
    [][FirstCompile =>
          LET lines == SourceLines
              is == InstructionsOf(lines)
              labels == compiler'.labels
              name(k) == LabelName(lines[k])
              defs == {k \in LabelsOf(lines) : LastDefinition(lines, k)}
          IN  /\ DOMAIN labels = {name(k) : k \in LabelsOf(lines)}
              /\ \A k \in defs : labels[name(k)] = NextAddress(is, k)
              /\ \A j, k \in defs :
                    (j < k /\ \A i \in is : ~(j < i /\ i < k))
                        => labels[name(j)] = labels[name(k)]]_vars

\* C22, the case: a label between two instructions is bound to the address
\* of the second, and two labels in a row to one address.
C22_LabelBeforeInstruction ==
    /\ compiles = 1
    /\ compiler.result = "ok"
    /\ \/ /\ Len(compiler.bytecodes) = 8
          /\ \E n \in DOMAIN compiler.labels : compiler.labels[n] = 4
       \/ /\ Len(compiler.bytecodes) = 4
          /\ \E n, m \in DOMAIN compiler.labels :
                n # m /\ compiler.labels[n] = 4 /\ compiler.labels[m] = 4

\* C23 as stated: for every `name:` line at position k of the instruction
\* stream that is followed by at least one instruction line, labels[name]
\* after assembly equals 4 times the number of instruction lines before k.
C23_EveryLabelLine ==
    [][FirstCompile =>
          LET lines == SourceLines
              is == InstructionsOf(lines)
              labels == compiler'.labels
          IN  \A k \in LabelsOf(lines) :
                  (\E i \in is : i > k)
                      => /\ LabelName(lines[k]) \in DOMAIN labels
                         /\ labels[LabelName(lines[k])] = AddressOf(is, k)]_vars

\* C23, amended: for every `name:` line that is the last line to define its
\* name and is followed by at least one instruction line, labels[name] after
\* assembly equals 4 times the number of instruction lines before it.
C23_LastLabelLine ==
    [][FirstCompile =>
          LET lines == SourceLines
              is == InstructionsOf(lines)
              labels == compiler'.labels
          IN  \A k \in LabelsOf(lines) :
                  (LastDefinition(lines, k) /\ \E i \in is : i > k)
                      => /\ LabelName(lines[k]) \in DOMAIN labels
                         /\ labels[LabelName(lines[k])] = AddressOf(is, k)]_vars

\* C23, the case: a source was assembled in which a name is defined twice,
\* with instructions in front of the second definition and behind it, and
\* the name is bound to the address of the second.
C23_DefinedTwice ==
    /\ compiles = 1
    /\ compiler.result = "ok"
    /\ from_utf8(compiler.assembly).ok
    /\ LET lines == SourceLines
           is == InstructionsOf(lines)
       IN  \E j, k \in LabelsOf(lines) :
               /\ j < k
               /\ LabelName(lines[j]) = LabelName(lines[k])
               /\ LastDefinition(lines, k)
               /\ \E i \in is : i > k
               /\ AddressOf(is, k) > AddressOf(is, j)
               /\ compiler.labels[LabelName(lines[k])] = AddressOf(is, k)

\* The tokens of a line: the opcode, the operands A, B and C, and what there
\* is behind them.
Tokens(line) == split_whitespace(BeforeComment(line))

\* The names the label lines define.
NamesOf(lines) == {LabelName(lines[k]) : k \in LabelsOf(lines)}

\* The address of the last definition of a name.
Bound(lines, name) ==
    NextAddress(InstructionsOf(lines),
                CHOOSE k \in LabelsOf(lines) :
                    LabelName(lines[k]) = name /\ LastDefinition(lines, k))

\* The references of some lines: an instruction at position k whose token p,
\* an operand, is the name of a label.
References(lines) ==
    {r \in InstructionsOf(lines) \X (2 .. 4) :
        /\ r[2] <= Len(Tokens(lines[r[1]]))
        /\ Tokens(lines[r[1]])[r[2]] \in NamesOf(lines)}

\* C24 as stated: when a label name is defined more than once, the binding
\* of the last definition in source order is the one in the label table and
\* the one used for every reference, including references that appear before
\* the last definition; text after the first `:` on a label line is ignored
\* (the name ends at the `:` and the line emits no word).
C24_LastDefinitionUsed ==
    [][FirstCompile =>
          LET lines == SourceLines
              is == InstructionsOf(lines)
              words == compiler'.bytecodes
          IN  /\ \A name \in NamesOf(lines) :
                    /\ name \in DOMAIN compiler'.labels
                    /\ compiler'.labels[name] = Bound(lines, name)
              /\ \A r \in References(lines) :
                    /\ AddressOf(is, r[1]) + r[2] <= Len(words)
                    /\ words[AddressOf(is, r[1]) + r[2]]
                           = Bound(lines, Tokens(lines[r[1]])[r[2]])]_vars

\* C24, where it fails: the compile stopped in front of a reference to a
\* name that is defined twice.
C24_ReferenceNotReached ==
    /\ compiles = 1
    /\ overflow_checks
    /\ compiler.result = "panic"
    /\ LET lines == SourceLines
           is == InstructionsOf(lines)
       IN  \E r \in References(lines) :
               /\ AddressOf(is, r[1]) + r[2] > Len(compiler.bytecodes)
               /\ \E j, k \in LabelsOf(lines) :
                     /\ j < k
                     /\ LabelName(lines[j]) = LabelName(lines[k])
                     /\ LabelName(lines[k]) = Tokens(lines[r[1]])[r[2]]

\* C24 for the words that are emitted: the label table holds the last
\* definition of every name, and every reference the compile comes to emits
\* it, in front of the last definition or behind it.
C24_LastDefinitionUsedWhereEmitted ==
    [][FirstCompile =>
          LET lines == SourceLines
              is == InstructionsOf(lines)
              words == compiler'.bytecodes
          IN  /\ \A name \in NamesOf(lines) :
                    /\ name \in DOMAIN compiler'.labels
                    /\ compiler'.labels[name] = Bound(lines, name)
              /\ compiler'.result = "ok"
                    => Len(words) = 4 * Cardinality(is)
              /\ \A r \in References(lines) :
                    AddressOf(is, r[1]) + r[2] <= Len(words)
                        => words[AddressOf(is, r[1]) + r[2]]
                               = Bound(lines, Tokens(lines[r[1]])[r[2]])]_vars

\* The value of a run of hex digits, as a number.
RECURSIVE HexOf(_)
HexOf(digits) ==
    IF digits = << >> THEN 0
    ELSE LET last == digits[Len(digits)]
             digit == IF last \in 48 .. 57 THEN last - 48
                      ELSE IF last \in 97 .. 102 THEN last - 87
                      ELSE last - 55
         IN  16 * HexOf(SubSeq(digits, 1, Len(digits) - 1)) + digit

\* A token is hex: one hex digit or more, of a value that fits the word.
IsHex(token) ==
    /\ token # << >>
    /\ \A i \in 1 .. Len(token) :
          token[i] \in (48 .. 57) \cup (97 .. 102) \cup (65 .. 70)
    /\ HexOf(token) <= MaxWord

\* The relative operands of some lines: an instruction at position k whose
\* token p, an operand, is `/h` with h hex, and is not the name of a label.
Relatives(lines) ==
    {r \in InstructionsOf(lines) \X (2 .. 4) :
        /\ r[2] <= Len(Tokens(lines[r[1]]))
        /\ Tokens(lines[r[1]])[r[2]] \notin NamesOf(lines)
        /\ Tokens(lines[r[1]])[r[2]][1] = Slash
        /\ IsHex(Tail(Tokens(lines[r[1]])[r[2]]))}

\* The h of the relative operand r.
OffsetOf(lines, r) == HexOf(Tail(Tokens(lines[r[1]])[r[2]]))

\* C25 as stated: a relative operand `/h` in an instruction emitted at
\* address p resolves to hex(h) + p, where p is the address of the
\* instruction's opcode word (the same p for operands A, B and C), for every
\* h that fits the word and every p; the sum is taken in the word.
C25_RelativeOperand ==
    [][FirstCompile =>
          LET lines == SourceLines
              is == InstructionsOf(lines)
              words == compiler'.bytecodes
          IN  \A r \in Relatives(lines) :
                  /\ AddressOf(is, r[1]) + r[2] <= Len(words)
                  /\ words[AddressOf(is, r[1]) + r[2]]
                         = (OffsetOf(lines, r) + AddressOf(is, r[1]))
                               % Modulus]_vars

\* C25, where it fails: the compile stopped at a relative operand, the next
\* word to emit, whose h and p add up to more than the word holds.
C25_RelativeOverflow ==
    /\ compiles = 1
    /\ overflow_checks
    /\ compiler.result = "panic"
    /\ LET lines == SourceLines
           is == InstructionsOf(lines)
       IN  \E r \in Relatives(lines) :
               /\ AddressOf(is, r[1]) + r[2] = Len(compiler.bytecodes) + 1
               /\ OffsetOf(lines, r) + AddressOf(is, r[1]) > MaxWord

\* C25 for the words that are emitted: a relative operand that the compile
\* comes to and gets past resolves to hex(h) + p in the word, p being the
\* address of the opcode for all three operands; it is emitted whenever
\* hex(h) + p fits the word or the build does not check for overflow.
C25_RelativeOperandWhereEmitted ==
    [][FirstCompile =>
          LET lines == SourceLines
              is == InstructionsOf(lines)
              words == compiler'.bytecodes
              fits(r) == OffsetOf(lines, r) + AddressOf(is, r[1]) <= MaxWord
          IN  /\ \A r \in Relatives(lines) :
                    AddressOf(is, r[1]) + r[2] <= Len(words)
                        => words[AddressOf(is, r[1]) + r[2]]
                               = (OffsetOf(lines, r) + AddressOf(is, r[1]))
                                     % Modulus
              /\ (~overflow_checks \/ \A r \in Relatives(lines) : fits(r))
                    => \A r \in Relatives(lines) :
                           AddressOf(is, r[1]) + r[2] <= Len(words)]_vars

\* What token p of the instruction at position k, an operand, resolves to:
\* the address of the label when it is the name of one, defined in front of
\* the instruction or behind it; if not, its relative address when it starts
\* with '/'; if not, its hex value; 0 when it is not there or is no hex.
Resolved(lines, k, p) ==
    LET tokens == Tokens(lines[k])
        address == AddressOf(InstructionsOf(lines), k)
    IN  IF p > Len(tokens) THEN 0
        ELSE IF tokens[p] \in NamesOf(lines) THEN Bound(lines, tokens[p])
        ELSE IF tokens[p][1] = Slash
        THEN (relative(tokens[p]) + address) % Modulus
        ELSE unwrap_or_0(from_str_radix(tokens[p]))

\* C26 as stated, operand resolution order: a token equal to a defined label
\* name emits that label's address even when the token is also valid hex or
\* starts with `/`, and even when the label is defined later in the source;
\* otherwise a token starting with `/` is relative; otherwise it is parsed as
\* hex; a missing or unparsable token emits 0.
C26_ResolutionOrder ==
    [][FirstCompile =>
          LET lines == SourceLines
              is == InstructionsOf(lines)
              words == compiler'.bytecodes
          IN  \A k \in is : \A p \in 2 .. 4 :
                  /\ AddressOf(is, k) + p <= Len(words)
                  /\ words[AddressOf(is, k) + p] = Resolved(lines, k, p)]_vars

\* C26, where it fails: the compile stopped at operand B, a token that
\* starts with '/' and is no label, and operand C, the name of a label, was
\* never looked up.
C26_StoppedAtRelative ==
    /\ compiles = 1
    /\ overflow_checks
    /\ compiler.result = "panic"
    /\ LET lines == SourceLines
           is == InstructionsOf(lines)
       IN  \E k \in is :
               /\ AddressOf(is, k) + 2 = Len(compiler.bytecodes)
               /\ Len(Tokens(lines[k])) >= 4
               /\ Tokens(lines[k])[3][1] = Slash
               /\ Tokens(lines[k])[3] \notin NamesOf(lines)
               /\ Tokens(lines[k])[4] \in NamesOf(lines)

\* C26 for the words that are emitted: every operand the compile gets past
\* is resolved in the order label, relative, hex, and a compile that returns
\* has got past them all.
C26_ResolutionOrderWhereEmitted ==
    [][FirstCompile =>
          LET lines == SourceLines
              is == InstructionsOf(lines)
              words == compiler'.bytecodes
          IN  /\ \A k \in is : \A p \in 2 .. 4 :
                    AddressOf(is, k) + p <= Len(words)
                        => words[AddressOf(is, k) + p] = Resolved(lines, k, p)
              /\ compiler'.result = "ok"
                    => \A k \in is : AddressOf(is, k) + 4 <= Len(words)]_vars

\* C26, the cases in one compile that returns: an operand that is hex and
\* the name of a label defined further down, emitted as the label's
\* address, and not as ff, behind a relative operand.
C26_LabelBeforeHex ==
    /\ compiles = 1
    /\ compiler.result = "ok"
    /\ compiler.bytecodes = << 255, 10, 255, 4 >>

\* The mnemonic table, in the order of the codes from 0: brk lpc beq spc lea
\* lra sra add sub mul div mod cmp nad drw key nop cfv.
MnemonicTable ==
    << << 98, 114, 107 >>, << 108, 112, 99 >>, << 98, 101, 113 >>,
       << 115, 112, 99 >>, << 108, 101, 97 >>, << 108, 114, 97 >>,
       << 115, 114, 97 >>, << 97, 100, 100 >>, << 115, 117, 98 >>,
       << 109, 117, 108 >>, << 100, 105, 118 >>, << 109, 111, 100 >>,
       << 99, 109, 112 >>, << 110, 97, 100 >>, << 100, 114, 119 >>,
       << 107, 101, 121 >>, << 110, 111, 112 >>, << 99, 102, 118 >> >>

\* What an opcode token resolves to: the code of the table when it is a
\* mnemonic, spelled as in the table; if not, its hex value; if it has none, 0.
OpcodeOf(token) ==
    IF \E code \in 0 .. 17 : MnemonicTable[code + 1] = token
    THEN CHOOSE code \in 0 .. 17 : MnemonicTable[code + 1] = token
    ELSE IF IsHex(token) THEN HexOf(token)
    ELSE 0

\* C27 as stated, opcode resolution: the first token of an instruction line
\* emits the code of the mnemonic table (brk=0 ... cfv=17, case-sensitive)
\* when it is a mnemonic; otherwise its unsigned hex value; otherwise 0; the
\* opcode token is never looked up in the label table.
C27_OpcodeResolution ==
    [][FirstCompile =>
          LET lines == SourceLines
              is == InstructionsOf(lines)
              words == compiler'.bytecodes
          IN  \A k \in is :
                  /\ AddressOf(is, k) + 1 <= Len(words)
                  /\ words[AddressOf(is, k) + 1]
                         = OpcodeOf(Tokens(lines[k])[1])]_vars

\* C27, where it fails: the compile stopped in front of an instruction line
\* whose first token is a mnemonic.
C27_OpcodeNotReached ==
    /\ compiles = 1
    /\ overflow_checks
    /\ compiler.result = "panic"
    /\ LET lines == SourceLines
           is == InstructionsOf(lines)
       IN  \E k \in is :
               /\ AddressOf(is, k) >= Len(compiler.bytecodes)
               /\ \E code \in 0 .. 17 :
                     MnemonicTable[code + 1] = Tokens(lines[k])[1]

\* C27 for the words that are emitted: the opcode of every instruction line
\* the compile comes to is that of the table, its hex value or 0, whatever
\* the labels are, and a compile that returns has come to every line.
C27_OpcodeWhereEmitted ==
    [][FirstCompile =>
          LET lines == SourceLines
              is == InstructionsOf(lines)
              words == compiler'.bytecodes
          IN  /\ \A k \in is :
                    AddressOf(is, k) + 1 <= Len(words)
                        => words[AddressOf(is, k) + 1]
                               = OpcodeOf(Tokens(lines[k])[1])
              /\ compiler'.result = "ok"
                    => \A k \in is : AddressOf(is, k) + 1 <= Len(words)]_vars

\* C27, the cases in one compile that returns: the eighteen mnemonics emit
\* the codes 0 to 17, each with three zero operands.
C27_AllMnemonics ==
    /\ compiles = 1
    /\ compiler.result = "ok"
    /\ Len(compiler.bytecodes) = 72
    /\ \A code \in 0 .. 17 :
          /\ compiler.bytecodes[4 * code + 1] = code
          /\ \A p \in 2 .. 4 : compiler.bytecodes[4 * code + p] = 0

\* C28 as stated, line splitting: each of LF, VT, FF, NEL, LS, PS and CR ends
\* a line and is consumed (no produced line contains a terminator code
\* point); CR immediately followed by LF counts as one terminator; a final
\* non-empty fragment without terminator is a line; empty trailing lines
\* (what is behind the last terminator, when nothing is) are not emitted.
C28_LineSplitting ==
    [][FirstCompile =>
          /\ compiler'.lines = SourceLines
          /\ \A k \in 1 .. Len(compiler'.lines) :
                \A i \in 1 .. Len(compiler'.lines[k]) :
                    compiler'.lines[k][i] \notin Terminators]_vars

\* C28, where it fails: a line was produced that starts with a terminator,
\* the one that came behind a CR.
C28_TerminatorInLine ==
    /\ compiles = 1
    /\ \E k \in 1 .. Len(compiler.lines) :
          /\ compiler.lines[k] # << >>
          /\ compiler.lines[k][1] \in Terminators
          /\ k > 1

\* A text in which no CR is followed by a terminator other than LF.
NoTerminatorBehindCR(text) ==
    \A i \in 1 .. Len(text) - 1 :
        text[i] = CR => text[i + 1] \notin Terminators \ {LF}

\* C28 for the texts in which a CR is followed by LF, by a char that ends
\* no line or by nothing: the lines are those of the claim.  In any text, a
\* terminator is found in a line only as its first char.
C28_LineSplittingWithoutCRPair ==
    [][FirstCompile =>
          /\ NoTerminatorBehindCR(Source) => compiler'.lines = SourceLines
          /\ \A k \in 1 .. Len(compiler'.lines) :
                \A i \in 2 .. Len(compiler'.lines[k]) :
                    compiler'.lines[k][i] \notin Terminators]_vars

\* What a line contributes to the instruction stream: its text strictly
\* before the first ';', without the whitespace around it.
Stripped(line) ==
    LET before == BeforeComment(line)
        inked == {i \in 1 .. Len(before) : before[i] \notin White_Space}
    IN  SubSeq(before,
               CHOOSE i \in inked : \A j \in inked : i <= j,
               CHOOSE i \in inked : \A j \in inked : i >= j)

\* The instruction stream of some lines: nothing for a line that is empty or
\* starts with ';' once trimmed, and for any other line what it contributes.
StreamOf(lines) ==
    LET kept(line) == ~BlankOrComment(line)
        survivors == SelectSeq(lines, kept)
    IN  [k \in 1 .. Len(survivors) |-> Stripped(survivors[k])]

FirstRun == compiles = 0 /\ compiles' = 1 /\ Compile

\* A token is malformed or out of range: it is no hex number that fits the
\* word, with or without a '+' in front.
Malformed(token) ==
    /\ ~IsHex(token)
    /\ ~(token[1] = Plus /\ IsHex(Tail(token)))

\* The operands of some lines whose relative address is beyond the word: an
\* instruction at position k whose token p is no label and starts with '/'.
Overflows(lines) ==
    {r \in InstructionsOf(lines) \X (2 .. 4) :
        /\ r[2] <= Len(Tokens(lines[r[1]]))
        /\ Tokens(lines[r[1]])[r[2]] \notin NamesOf(lines)
        /\ Tokens(lines[r[1]])[r[2]][1] = Slash
        /\ relative(Tokens(lines[r[1]])[r[2]])
               + AddressOf(InstructionsOf(lines), r[1]) > MaxWord}

\* C30 as stated: the assembler is total on valid UTF-8: for every source
\* text, compile returns a word vector and never fails, with malformed or
\* out-of-range opcodes and operands becoming zero words; the only failure
\* is invalid UTF-8 input.
C30_Total ==
    [][FirstRun =>
          compiler'.result =
              IF from_utf8(compiler.assembly).ok THEN "ok" ELSE "utf8"]_vars

\* C30, where it fails: the compile of a source that is valid UTF-8 did not
\* return.
C30_ValidSourcePanicked ==
    /\ compiles = 1
    /\ overflow_checks
    /\ from_utf8(compiler.assembly).ok
    /\ compiler.result = "panic"
    /\ Overflows(SourceLines) # {}

\* C30 without the overflow: bytes that are not UTF-8 are an error and emit
\* nothing; a source that is UTF-8 fails to compile only in the build that
\* checks for overflow and only with a relative operand beyond the word;
\* and a malformed or out-of-range token that is an opcode but no mnemonic,
\* or an operand that is neither a label nor relative, is emitted as 0.
C30_TotalWithoutOverflow ==
    [][FirstRun =>
          IF ~from_utf8(compiler.assembly).ok
          THEN /\ compiler'.result = "utf8"
               /\ compiler'.bytecodes = << >>
          ELSE LET lines == SourceLines
                   is == InstructionsOf(lines)
                   words == compiler'.bytecodes
                   zero(k, p) ==
                       LET token == Tokens(lines[k])[p]
                       IN  /\ p <= Len(Tokens(lines[k]))
                           /\ Malformed(token)
                           /\ token \notin NamesOf(lines) \/ p = 1
                           /\ token[1] # Slash \/ p = 1
                           /\ \A code \in 0 .. 17 :
                                 MnemonicTable[code + 1] # token
               IN  /\ compiler'.result \in {"ok", "panic"}
                   /\ compiler'.result = "panic"
                         <=> (overflow_checks /\ Overflows(lines) # {})
                   /\ \A k \in is : \A p \in 1 .. 4 :
                         (zero(k, p) /\ AddressOf(is, k) + p <= Len(words))
                             => words[AddressOf(is, k) + p] = 0]_vars

\* C30, the error case: bytes that are not UTF-8 were handed to the compiler
\* and its compile returned the error.
C30_InvalidEncoding ==
    /\ compiles = 1
    /\ ~from_utf8(compiler.assembly).ok
    /\ compiler.result = "utf8"

\* ------------------------------------------------------ the example programs

\* main was built with this source and has loaded what it compiled to.
Runs(source) ==
    /\ compiler.assembly = source
    /\ driver_at \in {"test", "step", "exit"}

C31_CtrlCLost ==
    /\ Runs(SimpleCtrlC)
    /\ pressed = {3, 97}
    /\ counter = 0
    /\ input_bytes = << >>
    /\ Cell(memory, 2) = 94

\* C32, as stated: the labelled Ctrl+C program of the module documentation,
\* assembled, loaded and driven by main's loop, halts when Ctrl+C (key 3) is
\* pressed.
C32_HaltsWhenCtrlCPressed ==
    (Runs(LabelledCtrlC) /\ 3 \in pressed) ~> exited

\* C32, its case: the labelled program is back at its key step with nothing
\* left to read; Ctrl+C was pressed, alone, and delivered to M[x], and the sub
\* took M[ctrl-c] from it, which is 4, the opcode word of `lea 18 1b 3`.
C32_CtrlCIgnored ==
    /\ Runs(LabelledCtrlC)
    /\ ~exited
    /\ pressed = {3}
    /\ counter = 0
    /\ input_bytes = << >>
    /\ Cell(memory, 24) = 4
    /\ Cell(memory, 20) = Modulus - 1

\* C32, what the labelled programs do: they halt once their key step has
\* delivered key 4 (Ctrl+D) to M[x], and they have not halted while no key
\* pressed so far is key 4.
C32_HaltsWhenCtrlDDelivered ==
    /\ \A source \in {LabelledCtrlC, ComplexCtrlC} :
          (Runs(source) /\ counter = 4 /\ Cell(memory, 20) = 4) ~> exited
    /\ [](\A source \in {LabelledCtrlC, ComplexCtrlC} :
             Runs(source) /\ exited => 4 \in pressed)

\* C32, the labels and the words of the labelled programs, as the test
\* it_compiles_the_complex_ctrl_c_example has them.
C32_AssembledAsDocumented ==
    \A source \in {LabelledCtrlC, ComplexCtrlC} :
        compiler.assembly = source /\ compiles = 1
        => /\ compiler.result = "ok"
           /\ compiler.bytecodes =
                 << 15, 20, 0, 0, 8, 20, 20, 24, 2, 11, 20, 16, 1, 14, 0, 0,
                    0, 0, 0, 0, 16, 0, 0, 0, 4, 24, 27, 3 >>

\* ------------------------------------------------------- the encoded pixels

\* ceil(height / 6), the number of bands of a frame.
BandCount(height) == (height + 5) \div 6

\* The byte the encoder owes for column x of the band that starts at row r:
\* 63 plus 2^y for every y in [0, 6) whose cell x + (r + y) * width is inside
\* the window and not zero.
RECURSIVE SixelSum(_, _, _, _, _)
SixelSum(mem, width, r, x, y) ==
    IF y = 6 THEN 0
    ELSE (IF Cell(mem, x + (r + y) * width) # 0
             /\ x + (r + y) * width < Len(mem)
          THEN 2 ^ y ELSE 0)
         + SixelSum(mem, width, r, x, y + 1)

SixelByte(mem, width, r, x) == 63 + SixelSum(mem, width, r, x, 0)

\* The string s is made of bands of stride bytes each, the pixel bytes of a
\* band starting lead bytes into it and "$-" ending it, for the window, width
\* and height of the call.
PixelsAt(s, stride, lead) ==
    \A b \in 0 .. BandCount(display_height) - 1 :
        /\ \A x \in 0 .. display_width - 1 :
              /\ s[b * stride + lead + x + 1]
                    = SixelByte(memory, display_width, 6 * b, x)
              /\ s[b * stride + lead + x + 1] \in 63 .. 126
        /\ s[(b + 1) * stride - 1] = 36
        /\ s[(b + 1) * stride] = 45

\* C33: without border the output of the encoder is ceil(height / 6) bands,
\* each of exactly `width` pixel bytes followed by "$-"; the byte for column
\* x of the band starting at row r is 63 plus the sum of 2^y over the y in
\* [0, 6) whose cell x + (r + y) * width is inside the window and nonzero;
\* every pixel byte lies in 63..126.
C33_BandsWithoutBorder ==
    [][Encode(FALSE) =>
          /\ Len(display') = BandCount(display_height) * (display_width + 2)
          /\ PixelsAt(display', display_width + 2, 0)]_vars

\* C33, its case: the capital A of the test it_displays_capital_a, 4 wide and
\* 6 high, was encoded without border as "]DD]$-".
C33_Witness ==
    /\ Len(memory) = 24
    /\ display_width = 4
    /\ display_height = 6
    /\ display = << 93, 68, 68, 93, 36, 45 >>

\* C36, an edge of the frame: width + 2 bytes `byte` and "$-".
Edge(byte) == [i \in 1 .. display_width + 2 |-> byte] \o << 36, 45 >>

\* C36: with border the output of the encoder is a top edge of width + 2 `_`
\* bytes and "$-", then every band as `~`, the band's `width` pixel bytes,
\* `~` and "$-", then a bottom edge of width + 2 `@` bytes and "$-"; the pixel
\* bytes are those produced with border = false.
C36_BandsWithBorder ==
    [][Encode(TRUE) =>
          LET stride == display_width + 4
              count == BandCount(display_height)
              middle == SubSeq(display', stride + 1, (count + 1) * stride)
              plain == from(memory, display_width, display_height, FALSE)
          IN  /\ Len(display') = (count + 2) * stride
              /\ SubSeq(display', 1, stride) = Edge(95)
              /\ SubSeq(display', (count + 1) * stride + 1, (count + 2) * stride)
                    = Edge(64)
              /\ PixelsAt(middle, stride, 1)
              /\ \A b \in 0 .. count - 1 :
                    /\ middle[b * stride + 1] = 126
                    /\ middle[b * stride + display_width + 2] = 126
                    /\ SubSeq(middle, b * stride + 2,
                              b * stride + display_width + 1)
                          = SubSeq(plain, b * (display_width + 2) + 1,
                                   b * (display_width + 2) + display_width)
         ]_vars

\* C36, its case: the capital A, 4 wide and 6 high, was encoded with border
\* as "______$-~]DD]~$-@@@@@@$-".
C36_Witness ==
    /\ Len(memory) = 24
    /\ display_width = 4
    /\ display_height = 6
    /\ display = << 95, 95, 95, 95, 95, 95, 36, 45,
                    126, 93, 68, 68, 93, 126, 36, 45,
                    64, 64, 64, 64, 64, 64, 36, 45 >>

\* ------------------------------------------------------ the drawn window

\* The end of the display window, display_base + width x height.
WindowEnd == display_address + display_width * display_height

\* What C34 says a drw step does.
DrawsWindow ==
    /\ display' = Frame
    /\ Len(memory') >= WindowEnd + 1
    /\ OthersKept({})
    /\ Advanced

\* C34, as stated: for every display_base, width and height that cfv can
\* set, a following drw step renders exactly the width x height cells
\* M[display_base .. display_base + width x height), leaves the memory at
\* least display_base + width x height + 1 cells long, changes no memory
\* value and advances PC by 4.
C34_DrawAnyGeometry == [][DrwStep => (Returned /\ DrawsWindow)]_vars

\* C34, where it fails without a panic: a build without overflow checks has
\* drawn, after cfv 0, 2^(WordBits-1), 2, a window whose area wrapped to 0;
\* the frame has not one lit pixel although M[0] is 17, and the memory is 8
\* cells long.
C34_WrappedWindow ==
    /\ ~overflow_checks
    /\ panicked = "no"
    /\ counter = 8
    /\ Geometry = << 0, Modulus \div 2, 2 >>
    /\ Cell(memory, 0) = 17
    /\ Len(memory) = 8
    /\ Len(display) = 11 + 3 * (Modulus \div 2 + 4)
    /\ \A i \in 1 .. Modulus \div 2 :
          display[9 + Modulus \div 2 + 4 + 1 + i] = 63

\* C34 where the window ends inside the address space, for the steps that
\* return: the frame is that of the window, the memory reaches past the
\* window's end, no memory value changes and PC advances by 4.
C34_DrawInRangeOnReturn ==
    [][(DrwStep /\ Returned /\ WindowEnd <= MaxWord) => DrawsWindow]_vars

\* C34 where the window ends beyond the last address: a build with overflow
\* checks stops in render's arithmetic; one without them stops at the slice,
\* or draws the cells from display_base to the wrapped end; the memory never
\* gets as long as the claim has it.
C34_DrawBeyondTop ==
    [][(DrwStep /\ Executed /\ WindowEnd > MaxWord) =>
          /\ Len(memory') < WindowEnd + 1
          /\ IF overflow_checks
             THEN panicked' = "area"
             ELSE \/ panicked' = "slice"
                  \/ /\ display_address <= WindowEnd % Modulus
                     /\ panicked' \in {"no", "advance"}
                     /\ display' =
                           Goto11 \o begin
                           \o from([i \in 1 .. (WindowEnd % Modulus)
                                                - display_address |->
                                        Cell(memory, display_address + i - 1)],
                                   display_width, display_height, TRUE)
                           \o end]_vars

\* ------------------------------------------------- the order within a step

\* The word opcodes 7 to 13 owe for the values bv and cv of M[B] and M[C].
ResultOf(op, bv, cv) ==
    CASE op = 7 -> (bv + cv) % Modulus
      [] op = 8 -> (bv + Modulus - cv) % Modulus
      [] op = 9 -> (bv * cv) % Modulus
      [] op = 10 -> IF cv = 0 THEN 0 ELSE bv \div cv
      [] op = 11 -> IF cv = 0 THEN 0 ELSE bv % cv
      [] op = 12 -> IF bv < cv THEN 1 ELSE 0
      [] op = 13 -> MaxWord - BitAnd(bv, cv)

\* C35: within one step the four instruction words are fetched before any
\* write and the source cells are read before the destination is written:
\* add, sub, mul, div, mod, cmp and nad store the result of the values M[B]
\* and M[C] had before the step, also when A = B or A = C, and an instruction
\* that writes over one of its own four words is executed with the opcode
\* and operands it had before the write (the stores of spc, lea, lra, sra and
\* key go where the words fetched say, PC moves on from the instruction by
\* 4, and no other cell changes).
C35_FetchedAndReadBeforeWritten ==
    [][(Step /\ Executed) =>
          /\ Fetched(0) \in 7 .. 13 =>
                /\ NewM(OperandA)
                      = ResultOf(Fetched(0), M(OperandB), M(OperandC))
                /\ OthersKept({OperandA})
          /\ Fetched(0) = 3 =>
                NewM(OperandA) = counter /\ OthersKept({OperandA})
          /\ Fetched(0) = 4 =>
                NewM(OperandA) = M(OperandB) /\ OthersKept({OperandA})
          /\ Fetched(0) = 5 =>
                NewM(OperandA) = M(M(OperandB)) /\ OthersKept({OperandA})
          /\ Fetched(0) = 6 =>
                NewM(M(OperandB)) = M(OperandA) /\ OthersKept({M(OperandB)})
          /\ (Fetched(0) = 15 /\ keyboard # None /\ ~input) =>
                NewM(OperandA) = keyboard[1] /\ OthersKept({OperandA})
          /\ (Fetched(0) \in 3 .. 13 /\ Returned) => Advanced]_vars

\* C35, its case: the sub of [8, 2, 2, 3, ...] has A = B = 2, the address of
\* its own operand B; it stored 2 - 3 there and PC is 4.
C35_Witness ==
    /\ Len(memory) = 7
    /\ SubSeq(memory, 1, 4) = << 8, 2, MaxWord, 3 >>
    /\ counter = 4
    /\ panicked = "no"

\* C35, the overlaps are met: some step of an add to sub executed with its
\* destination among the cells it reads; the case A = C, an add on which
\* M[A] = M[B] + M[C] differs from 2 * M[B], has been stepped.
C35_OverlapStepped ==
    /\ Len(memory) = 7
    /\ SubSeq(memory, 1, 4) = << 7, 4, 5, 4 >>
    /\ counter = 4
    /\ memory[5] = 3
    /\ memory[6] = 2

\* ----------------------------------------------------- the label table

\* C37, as stated: every key of the label table is a non-empty string that
\* does not start with `;`, whatever the source text.
C37_LabelKeysNonEmpty ==
    \A name \in DOMAIN compiler.labels :
        name # << >> /\ name[1] # Semicolon

\* C37, where it fails: the source ":" and, on the next line, "nop" was
\* compiled; the table binds the empty string to 0.
C37_EmptyKey ==
    /\ compiler.assembly = << 58, 10, 110, 111, 112, 10 >>
    /\ compiler.result = "ok"
    /\ DOMAIN compiler.labels = { << >> }
    /\ compiler.labels[<< >>] = 0
    /\ compiler.bytecodes = << 16, 0, 0, 0 >>

\* C37, what holds of the keys: a key holds no `;` and no `:`, it does not
\* begin with whitespace, and it is the empty string only when a line of
\* the instruction stream begins with `:`.
C37_KeysOfLabelLines ==
    \A name \in DOMAIN compiler.labels :
        /\ \A i \in 1 .. Len(name) : name[i] \notin {Semicolon, Colon}
        /\ name # << >> => name[1] \notin White_Space
        /\ name = << >> =>
              \E k \in 1 .. Len(compiler.instructions) :
                  compiler.instructions[k][1] = Colon

\* ------------------------------------------- the register and the reader

\* What C38 says a key step does when a reader is bound and the register
\* holds a byte.
RegisterOrBatchEffect ==
    /\ NewM(OperandA) = IF input_bytes # << >>
                        THEN input_bytes[Len(input_bytes)]
                        ELSE keyboard[1]
    /\ Advanced

\* C38, as stated: when a reader is bound and the last-key register holds a
\* byte from write_key, a key step whose drained batch is non-empty writes
\* the batch's final byte (not the register's) into M[A]; when the batch is
\* empty it writes the register's byte; in both cases PC advances by 4.
C38_RegisterAndBatch ==
    [][(KeyStep /\ input /\ keyboard # None)
          => (Returned /\ RegisterOrBatchEffect)]_vars

\* C38, the state that refutes it: with a reader bound and a byte in the
\* register, a key at the top of the address space stored its byte and then
\* stopped the step instead of advancing PC.
C38_StoppedAtTop ==
    /\ StoppedAtTop({15})
    /\ input
    /\ keyboard # None
    /\ panicked = "advance"
    /\ Cell(memory, Cell(memory, (counter + 1) % Modulus)) \in Keys

\* C38, what is left of it: such a key step that returns has drained the
\* reader, stored the final byte of the batch, or the register's byte when
\* the batch was empty, changed no other cell, left the register as it was
\* and advanced PC by 4.
C38_RegisterAndBatchOnReturn ==
    [][(KeyStep /\ input /\ keyboard # None /\ Returned) =>
          /\ RegisterOrBatchEffect
          /\ OthersKept({OperandA})
          /\ input_bytes' = << >>
          /\ keyboard' = keyboard]_vars

\* C38, the batch goes before the register: write_key left Ctrl+C in the
\* register, the reader held the letter, and the key of [15, 1, 0, 0] stored
\* the letter in M[1].
C38_BatchBeforeRegister ==
    /\ memory = << 15, 97, 0, 0 >>
    /\ counter = 4
    /\ input
    /\ input_bytes = << >>
    /\ keyboard = Some(3)

\* ------------------------------------------------- what a step leaves alone

\* The cells whose value the step about to be taken changes; a cell the
\* step adds reads as zero before.
ChangedCells ==
    {i \in 0 .. Len(memory') - 1 : memory'[i + 1] # Cell(memory, i)}

\* C39: every step changes the value of at most one memory cell, and only
\* opcodes 3 to 13 and 15 change any; no opcode other than key changes the
\* last-key register, and only cfv changes the display geometry.
C39_StepFrame ==
    [][Step =>
          /\ Len(memory') >= Len(memory)
          /\ Cardinality(ChangedCells) <= 1
          /\ ChangedCells # {} => Fetched(0) \in 3 .. 13 \cup {15}
          /\ keyboard' # keyboard => Fetched(0) = 15
          /\ Geometry' # Geometry => Fetched(0) = 17]_vars

\* C39, its case: the sra of [6, 4, 5, 6, 1, 2, 11] stored M[4] = 1 at
\* M[M[5]] = M[2], its own operand B, and nothing else changed: the register
\* is empty and the display is where Computer::new put it.
C39_Witness ==
    /\ memory = << 6, 4, 1, 6, 1, 2, 11 >>
    /\ counter = 4
    /\ keyboard = None
    /\ Geometry = << DefaultDisplayAddress, DefaultDisplayWidth,
                     DefaultDisplayHeight >>

\* ------------------------------------------------- what load leaves alone

\* C40: load resets only memory and PC: the last-key register, the display
\* geometry set by cfv, the retained frame and its read position are the
\* same after load as before; so a key supplied by write_key before load is
\* delivered to the first key step of the newly loaded program (a key step
\* without reader stores the register's byte whenever the register holds
\* one).
C40_LoadKeepsTheRest ==
    [][/\ \A words \in ReloadPrograms :
             Load(words) =>
                /\ memory' = words
                /\ counter' = 0
                /\ keyboard' = keyboard
                /\ Geometry' = Geometry
                /\ display' = display
                /\ read_position' = read_position
                /\ UNCHANGED << input, input_bytes, output, output_bytes,
                                panicked >>
       /\ (KeyStep /\ ~input /\ keyboard # None /\ counter = 0) =>
             /\ Returned
             /\ NewM(OperandA) = keyboard[1]
             /\ counter' = 4]_vars

\* C40, its case: [15, 1, 0, 0] was loaded over the program that had moved
\* the display and drawn, after part of the frame had been read; its first
\* key step stored the byte of write_key, and geometry, frame and read
\* position are those from before the load.
C40_Witness ==
    /\ memory = << 15, 97, 0, 0 >>
    /\ counter = 4
    /\ keyboard = Some(97)
    /\ Geometry = << 4, 2, 7 >>
    /\ display # << >>
    /\ read_position = ChunkUnit

====
